---- MODULE Spec2Model ----
(***************************************************************************)
(* RICE: the resumable ICE-detection sweep (scripts/detect.py), the        *)
(* coverage sweep (scripts/run_coverage.py) and the ICE classifiers        *)
(* (scripts/detect.py check_ice, src/tools/detect.py compile_and_check,    *)
(* src/tools/compiler.py check_is_ice).                                    *)
(*                                                                         *)
(* Text is a sequence of characters, one string per character.  The long   *)
(* literals of the source are abbreviated, one character per word:         *)
(*   "internal compiler error"    <<"i","c","e">>                          *)
(*   "thread 'rustc' panicked at" <<"t","p","a">>                          *)
(*   "thread 'rustc' panicked"    <<"t","p">>                              *)
(*   "Box<Any>"                   <<"B","A">>                              *)
(*   "delay_span_bug"             <<"d","b">>                              *)
(*   "query stack during panic"   <<"q","s">>                              *)
(*   "unexpectedly panicked"      <<"u","p">>                              *)
(*   "Timeout"                    <<"Timeout">>                            *)
(*   "Script Error: ..."          <<"Script Error">>                       *)
(* In a path "sp" is a blank, "rs" the suffix ".rs", "d/" a directory      *)
(* component and "cg" the prefix "code_gen/"; in a ledger file "nl" is the *)
(* line feed.                                                              *)
(***************************************************************************)
EXTENDS Integers, Sequences, FiniteSets, Bags, TLC

\* ------------------------------------------------------------------ bounds
\* Sweeps started over the same tree (the first run and the re-runs).
MaxRuns == 2
\* Units processed between two explicit flushes of the ledger.  The scripts
\* set 50 (scripts/detect.py:37); the model runs the same loop on a small
\* tree, so the batch is scaled down with it.
BATCH_SIZE == 2
\* Longest toolchain output enumerated for the classifiers.
MaxOut == 3

\* ------------------------------------------------------------------ text
\* str.lower() on one character.
LowerChar(c) ==
    CASE c = "I" -> "i"
      [] c = "C" -> "c"
      [] c = "E" -> "e"
      [] c = "B" -> "b"
      [] c = "A" -> "a"
      [] OTHER -> c

\* str.lower()
lower(s) == [i \in 1..Len(s) |-> LowerChar(s[i])]

\* Python's  sub in s  on strings.
Contains(sub, s) ==
    \E i \in 0..(Len(s) - Len(sub)) :
        \A j \in 1..Len(sub) : s[i + j] = sub[j]

Whitespace == {"sp", "nl"}

RECURSIVE lstrip(_)
lstrip(s) ==
    IF s # <<>> /\ Head(s) \in Whitespace THEN lstrip(Tail(s)) ELSE s

RECURSIVE rstrip(_)
rstrip(s) ==
    IF s # <<>> /\ s[Len(s)] \in Whitespace
    THEN rstrip(SubSeq(s, 1, Len(s) - 1))
    ELSE s

\* str.strip()
strip(s) == rstrip(lstrip(s))

\* str.splitlines(): the pieces between line feeds, no empty piece after a
\* final line feed.
RECURSIVE splitlines(_)
splitlines(s) ==
    IF s = <<>> THEN <<>>
    ELSE IF \E i \in 1..Len(s) : s[i] = "nl"
         THEN LET i == CHOOSE k \in 1..Len(s) :
                           s[k] = "nl" /\ \A m \in 1..(k - 1) : s[m] # "nl"
              IN  <<SubSeq(s, 1, i - 1)>> \o splitlines(SubSeq(s, i + 1, Len(s)))
         ELSE <<s>>

Range(q) == {q[i] : i \in 1..Len(q)}

\* -------------------------------------------------------------- classifiers
\* scripts/detect.py check_ice and src/tools/detect.py compile_and_check:
\* the signature literals, each looked up with Python's  in.
ICE_SIGNATURES ==
    {<<"i", "c", "e">>, <<"t", "p", "a">>, <<"B", "A">>, <<"d", "b">>, <<"q", "s">>}

is_ice(output) == \E k \in ICE_SIGNATURES : Contains(k, output)

\* What check_ice returns when subprocess.run returns: the text is the error
\* stream followed by the output stream; the return code is not read.
CheckIceReturn(stderr, stdout, rc) ==
    [is_ice |-> is_ice(stderr \o stdout), output |-> stderr \o stdout]

\* except subprocess.TimeoutExpired: whatever the killed process had written
\* is dropped.
MutCheckIceTimeout(stderr, stdout) ==
    [is_ice |-> is_ice(stderr \o stdout), output |-> <<"Timeout">>]
CheckIceTimeout(stderr, stdout) ==
    [is_ice |-> FALSE, output |-> <<"Timeout">>]

\* except Exception (the process could not be started, among others).
CheckIceError == [is_ice |-> FALSE, output |-> <<"Script Error">>]

\* src/tools/detect.py compile_and_check, lines 54-62: the same literals,
\* looked up the same way.
compile_and_check(stderr, stdout, rc) ==
    LET output == stderr \o stdout
    IN  [is_ice |-> \/ Contains(<<"i", "c", "e">>, output)
                    \/ Contains(<<"t", "p", "a">>, output)
                    \/ Contains(<<"B", "A">>, output)
                    \/ Contains(<<"d", "b">>, output)
                    \/ Contains(<<"q", "s">>, output),
         output |-> output]

\* src/tools/compiler.py check_is_ice: keywords and text are both lowered.
keywords == {<<"t", "p">>, <<"i", "c", "e">>, <<"u", "p">>, <<"q", "s">>}

check_is_ice(compiler_output) ==
    LET lower_output == lower(compiler_output)
    IN  \E k \in keywords : Contains(lower(k), lower_output)

\* src/tools/compiler.py run_compiler: no timeout, stderr + stdout.
run_compiler(stderr, stdout) == stderr \o stdout

\* ------------------------------------------------------------------- files
\* Paths of the files the tree under code_gen may hold, relative to it; the
\* second starts with a blank, the third is in a subdirectory.
Names == {<<"a", "rs">>, <<"sp", "a", "rs">>, <<"d/", "b", "rs">>, <<"c", "rs">>}

\* The trees swept again and again: one or two of the first three files.
Trees == {t \in SUBSET (Names \ {<<"c", "rs">>}) : Cardinality(t) \in {1, 2}}

\* What the toolchain can do on a unit when it ends by itself.
ToolRuns ==
    { [stderr |-> <<>>, stdout |-> <<>>, rc |-> 0],
      [stderr |-> <<"x">>, stdout |-> <<>>, rc |-> 1],
      [stderr |-> <<"i", "c">>, stdout |-> <<"e">>, rc |-> 1],
      [stderr |-> <<"I", "C", "E">>, stdout |-> <<>>, rc |-> 1],
      [stderr |-> <<"B", "A">>, stdout |-> <<>>, rc |-> 101] }

\* What it can have written by the time it is killed for running too long.
PartialRuns ==
    { [stderr |-> <<>>, stdout |-> <<>>, rc |-> 0],
      [stderr |-> <<"i", "c", "e">>, stdout |-> <<>>, rc |-> 0] }

NoClassification ==
    [check_ice |-> FALSE, compile_and_check |-> FALSE, check_is_ice |-> FALSE]

NoRun == [stderr |-> <<>>, stdout |-> <<>>, rc |-> 0]
NoResult == [is_ice |-> FALSE, output |-> <<>>]

\* A file system as a set of [path, content]; writing replaces.
MutWriteFile(fs, path, content) == fs \cup {[path |-> path, content |-> content]}
WriteFile(fs, path, content) ==
    {e \in fs : e.path # path} \cup {[path |-> path, content |-> content]}

Paths(fs) == {e.path : e \in fs}

\* The unit's text, which the model never looks into.
SourceText(name) == <<"text of">> \o name

\* Path.stem + ".err.log": the last suffix is replaced.
MutErrLogName(name) == name
ErrLogName(name) == SubSeq(name, 1, Len(name) - 1) \o <<"err.log">>

\* pathlib on a relative path: the directory components, the final component
\* and the final component without its last suffix.
DirParts == {"d/"}
parent(p) == SelectSeq(p, LAMBDA c : c \in DirParts)
file_name(p) == SelectSeq(p, LAMBDA c : c \notin DirParts)
stem(p) == SubSeq(file_name(p), 1, Len(file_name(p)) - 1)

\* target_dir / rs_file.name, target_dir being ICE_DIR / rel_path.parent; a
\* path of the archive stands for the file and for the directory chain that
\* mkdir(parents=True, exist_ok=True) has made above it.
CopyName(rel_path) == parent(rel_path) \o file_name(rel_path)

\* src/tools/detect.py save_ice when nothing raises: the source is copied
\* into the mirrored directory and the log written next to it.
save_ice(fs, rs_path, error_log) ==
    LET rel_path == rs_path
        target_dir == parent(rel_path)
        copied == WriteFile(fs, target_dir \o file_name(rs_path), SourceText(rs_path))
        log_path == target_dir \o stem(rs_path) \o <<"err.log">>
    IN  WriteFile(copied, log_path, error_log)

\* scripts/detect.py main, lines 172-174: an ICE is counted when
\* save_ice_report returns True.
MutIceFound(n, saved) == n + 1
IceFound(n, saved) == IF saved THEN n + 1 ELSE n

\* TemporaryDirectory.__exit__: the directory and what it holds are removed,
\* however the with block is left.
MutRemoveTmp(dirs, d) == dirs
RemoveTmp(dirs, d) == dirs \ {d}

\* tempfile.mkdtemp: a name no existing directory has.
FreshTmp(dirs) == CHOOSE d \in 1..(Cardinality(dirs) + 1) : d \notin dirs

\* ---------------------------------------------------------------- coverage
\* scripts/run_coverage.py BATCH_SIZE: the pending fragments that trigger a
\* merge.  The script sets 20; it is scaled down with the tree.
COVERAGE_BATCH_SIZE == 2

\* Lines 191-192: current_profraws_len >= BATCH_SIZE
MutShouldMerge(current_profraws_len) == current_profraws_len >= 1
ShouldMerge(current_profraws_len) == current_profraws_len >= COVERAGE_BATCH_SIZE

\* PROFILE_PATTERN cov_%p_%m.profraw: one fragment per compiler process that
\* ends by itself, named after the process.
Fragment(r, unit) == [run |-> r, unit |-> unit]

\* FINAL_PROFDATA: absent, a valid index holding what was merged into it, or
\* a file the merge tool did not finish writing.
NoIndex == [state |-> "absent", merged |-> EmptyBag]
Partial == [state |-> "partial", merged |-> EmptyBag]

\* llvm-profdata merge -sparse [FINAL_PROFDATA] files... -o FINAL_PROFDATA
\* when it exits with 0: the index that was there plus the fragments.
MutMerged(idx, files) == [state |-> "valid", merged |-> SetToBag(files)]
Merged(idx, files) == [state |-> "valid", merged |-> idx.merged (+) SetToBag(files)]

\* How one run of that command can end.  The output path is the path of the
\* index itself: the tool reads its inputs, then opens FINAL_PROFDATA and
\* writes.  It leaves the index as it was (it failed before writing), leaves
\* a file it did not finish (it failed or was killed while writing), or, its
\* inputs being readable, leaves the merged index and exits with 0.
MergeEnds(idx, files) ==
    {[index |-> idx, ok |-> FALSE], [index |-> Partial, ok |-> FALSE]}
        \cup (IF idx.state # "partial"
              THEN {[index |-> Merged(idx, files), ok |-> TRUE]}
              ELSE {})

\* ------------------------------------------------------------------ ledger
\* open(..., "a", buffering=1).write(text): text goes to the stream's buffer,
\* and a line feed in it sends the buffer to the file at once.
TextWrite(f, file, text) ==
    IF "nl" \in Range(text)
    THEN [f |-> <<>>, file |-> file \o f \o text]
    ELSE [f |-> f \o text, file |-> file]

\* flush() and close(): the buffer goes to the file.
Flush(f, file) == [f |-> <<>>, file |-> file \o f]

\* scripts/detect.py load_checked_files on a readable file.
load_checked_files(text) ==
    {strip(line) : line \in {l \in Range(splitlines(text)) : strip(l) # <<>>}}

\* scripts/run_coverage.py load_processed_files on a readable file: every
\* line stripped, the empty ones included.
load_processed_files(text) == {strip(line) : line \in Range(splitlines(text))}

\* str(rs_file.relative_to(CODEGEN_DIR)) in scripts/detect.py
RelDetect(name) == name

\* load_processed_files when the read raises after k lines: the loop has
\* added the lines it was given, and the except clause returns that set.
PartlyLoaded(text, k) == {strip(splitlines(text)[i]) : i \in 1..k}

\* os.path.relpath(os.path.join(root, file), start=".") in run_coverage.py
RelCoverage(name) == <<"cg">> \o name

\* ------------------------------------------------------------------- state
\* --------------------------------------------------- src/tools/ast.py
\* A syntax tree as the parser gives it: every node has a type, is named or
\* not (punctuation and keywords are not) and has its children in order.
\* The types are those of the Rust grammar, all in lower case.
Node(type, children) == [type |-> type, is_named |-> TRUE, children |-> children]
Token(type) == [type |-> type, is_named |-> FALSE, children |-> <<>>]

\* [c for c in node.children if c.is_named]
named_children(node) == SelectSeq(node.children, LAMBDA c : c.is_named)

Max(S) == CHOOSE x \in S : \A y \in S : y <= x

MutAstDepth(node) == IF named_children(node) = <<>> THEN 1 ELSE 2

\* ast_depth, lines 23-30.
RECURSIVE ast_depth(_)
ast_depth(node) ==
    LET nc == named_children(node)
        depths == {ast_depth(nc[i]) : i \in 1..Len(nc)}
    IN  IF node.type = "source_file"
        THEN IF depths = {} THEN 0 ELSE Max(depths)
        ELSE IF nc = <<>> THEN 1 ELSE 1 + Max(depths)

MutCollectCandidateRoots(node) == named_children(node)

\* collect_candidate_roots, lines 35-47: the nodes in the order the stack
\* gives them up, the last child first.
RECURSIVE collect_candidate_roots(_)
collect_candidate_roots(node) ==
    LET nc == named_children(node)
        RECURSIVE below(_)
        below(i) == IF i = 0 THEN <<>>
                    ELSE collect_candidate_roots(nc[i]) \o below(i - 1)
    IN  (IF node.type # "source_file" THEN <<node>> ELSE <<>>) \o below(Len(nc))

RECURSIVE MutAst2gramLimited(_, _, _)
MutAst2gramLimited(node, max_depth, cur_depth) ==
    LET nc == named_children(node)
        RECURSIVE over(_)
        over(i) ==
            IF i = 0 THEN EmptyBag
            ELSE over(i - 1) (+)
                 (IF node.type = "source_file"
                  THEN MutAst2gramLimited(nc[i], max_depth, cur_depth)
                  ELSE SetToBag({<<node.type, nc[i].type>>}) (+)
                       MutAst2gramLimited(nc[i], max_depth, cur_depth + 1))
    IN  IF node.type # "source_file" /\ cur_depth > max_depth
        THEN EmptyBag
        ELSE over(Len(nc))

\* ast_2gram_limited, lines 53-64: the counter the call fills, as a bag of
\* (parent type, child type) pairs.
RECURSIVE ast_2gram_limited(_, _, _)
ast_2gram_limited(node, max_depth, cur_depth) ==
    LET nc == named_children(node)
        RECURSIVE over(_)
        over(i) ==
            IF i = 0 THEN EmptyBag
            ELSE over(i - 1) (+)
                 (IF node.type = "source_file"
                  THEN ast_2gram_limited(nc[i], max_depth, cur_depth)
                  ELSE SetToBag({<<node.type, nc[i].type>>}) (+)
                       ast_2gram_limited(nc[i], max_depth, cur_depth + 1))
    IN  IF node.type # "source_file" /\ cur_depth >= max_depth
        THEN EmptyBag
        ELSE over(Len(nc))

\* The token of a pair, line 72.
tok(g) == g[1] \o "__" \o g[2]

\* counter_to_doc, lines 69-74, read back by the vectorizer's token pattern
\* (line 117): the words of the document and how many times each occurs.
counter_to_doc(counter) ==
    LET RECURSIVE words(_)
        words(gs) ==
            IF gs = {} THEN EmptyBag
            ELSE LET g == CHOOSE x \in gs : TRUE
                 IN  [t \in {tok(g)} |-> counter[g]] (+) words(gs \ {g})
    IN  words(DOMAIN counter)

\* 1000 * ln(k), rounded.
Ln1000 ==
    <<0, 693, 1099, 1386, 1609, 1792, 1946, 2079, 2197, 2303,
      2398, 2485, 2565, 2639, 2708, 2773, 2833, 2890, 2944, 2996>>

\* smooth_idf=True, line 117: ln((1 + n) / (1 + df)) + 1, in hundredths.
idf(n, df) == (1000 + Ln1000[1 + n] - Ln1000[1 + df] + 5) \div 10

\* The integer square root.
RECURSIVE sqrt_between(_, _, _)
sqrt_between(lo, hi, x) ==
    IF hi - lo <= 1 THEN lo
    ELSE LET mid == (lo + hi) \div 2
         IN  IF mid * mid <= x THEN sqrt_between(mid, hi, x)
             ELSE sqrt_between(lo, mid, x)

isqrt(x) == sqrt_between(0, 46341, x)

\* fit_transform and cosine_similarity, lines 117-123: the cosine of the
\* first document's tf-idf vector with every other document's, in hundredths.
\* A vector of norm 0 is left as it is and has cosine 0 with everything.
cosine_similarity(docs) ==
    LET n == Len(docs)
        vocabulary == UNION {DOMAIN docs[i] : i \in 1..n}
        df(t) == Cardinality({i \in 1..n : t \in DOMAIN docs[i]})
        x(i, t) == CopiesIn(t, docs[i]) * idf(n, df(t))
        dot(i, j) ==
            LET RECURSIVE sum(_)
                sum(ts) ==
                    IF ts = {} THEN 0
                    ELSE LET t == CHOOSE u \in ts : TRUE
                         IN  x(i, t) * x(j, t) + sum(ts \ {t})
            IN  sum(vocabulary)
        norm10(i) == isqrt(100 * dot(i, i))
        cos(i, j) ==
            LET norms == (norm10(i) * norm10(j)) \div 100
            IN  IF norms = 0 THEN 0 ELSE (100 * dot(i, j)) \div norms
    IN  [j \in 1..(n - 1) |-> cos(1, j + 1)]

\* Lines 94-108: the documents of one query, the snippet's first, then one
\* for every candidate root whose counter is not empty.
documents(snippet_tree, full_tree) ==
    LET snippet_depth == ast_depth(snippet_tree)
        snippet_counter == ast_2gram_limited(snippet_tree, snippet_depth, 1)
        roots == collect_candidate_roots(full_tree)
        counters == [i \in 1..Len(roots) |->
                        ast_2gram_limited(roots[i], snippet_depth, 1)]
        candidate_counters == SelectSeq(counters, LAMBDA c : DOMAIN c # {})
    IN  <<counter_to_doc(snippet_counter)>> \o
        [i \in 1..Len(candidate_counters) |-> counter_to_doc(candidate_counters[i])]

\* Line 91.
TooShallow(snippet_depth) == snippet_depth <= 1

\* Line 126.
MutAnyHit(sims, thr) == \E i \in 1..Len(sims) : sims[i] <= thr
AnyHit(sims, thr) == \E i \in 1..Len(sims) : sims[i] >= thr

\* The scores of lines 113-123, none when the function has returned before.
Sims(snippet_tree, full_tree) ==
    IF TooShallow(ast_depth(snippet_tree)) THEN <<>>
    ELSE LET docs == documents(snippet_tree, full_tree)
         IN  IF Len(docs) = 1 THEN <<>> ELSE cosine_similarity(docs)

MutMatchAndSave(snippet_tree, full_tree, file, thr) ==
    [return |-> AnyHit(Sims(snippet_tree, full_tree), thr), file |-> <<full_tree>>]

\* match_and_save, lines 79-133: what it returns and what is at save_path
\* afterwards (file: <<>> when there is none, else its content).
match_and_save(snippet_tree, full_tree, file, thr) ==
    IF AnyHit(Sims(snippet_tree, full_tree), thr)
    THEN [return |-> TRUE, file |-> <<full_tree>>]
    ELSE [return |-> FALSE, file |-> file]

\* The programs of the model.  Items of depth 1, 2 and 3:
\*   // c      struct S;      use a;      mod m;      fn f() { ; }
Comment == Node("line_comment", <<>>)
Struct == Node("struct_item", <<Token("struct"), Node("type_identifier", <<>>), Token(";")>>)
Use == Node("use_declaration", <<Token("use"), Node("identifier", <<>>), Token(";")>>)
ModDecl == Node("mod_item", <<Token("mod"), Node("identifier", <<>>), Token(";")>>)
Fn ==
    Node("function_item",
         <<Token("fn"), Node("identifier", <<>>), Node("parameters", <<Token("("), Token(")")>>),
           Node("block", <<Token("{"), Node("empty_statement", <<Token(";")>>), Token("}")>>)>>)

Items == {Comment, Struct, Use, ModDecl, Fn}

MaxItems == 3

SourceFile(items) == Node("source_file", items)

\* mod m { items }
ModOf(items) ==
    Node("mod_item",
         <<Token("mod"), Node("identifier", <<>>),
           Node("declaration_list", <<Token("{")>> \o items \o <<Token("}")>>)>>)

Snippets == {SourceFile(s) : s \in UNION {[1..k -> Items] : k \in 0..MaxItems}}

\* The files a snippet is matched against: the files of one item, the
\* snippet's own file, and the snippet inside a module.
FullCodes(snippet_tree) ==
    {SourceFile(<<item>>) : item \in Items}
    \cup {snippet_tree, SourceFile(<<ModOf(snippet_tree.children)>>)}

\* In hundredths; 60 is the default and the one filter_node passes.
Thresholds == {0, 30, 60, 90}

\* What an earlier query may have left at save_path.
OldFile == <<SourceFile(<<Node("const_item", <<>>)>>)>>

VARIABLES
    script,          \* which script runs: "detect" or "coverage"
    tree,            \* the .rs files under the source directory
    run,             \* how many times the script has been started
    pc,              \* where the running script is
    todo,            \* the files the enumeration has not reached yet
    rs_file,         \* the file of the current iteration
    tmpdirs,         \* the scratch directories on disk
    tmpdir,          \* the scratch directory of the latest runner call, or 0
    proc,            \* the toolchain process of the current call
    tool,            \* what that process wrote and returned
    result,          \* (is_ice, error_msg) as check_ice returns it
    log_file,        \* LOG_FILE on disk (detect.py)
    log_f,           \* what log_f holds and has not sent to the file
    checked_files,
    processed_count,
    skipped_count,
    ice_found_count,
    ice_dir,         \* the files under ICE_DIR
    record_file,     \* RECORD_FILE on disk (run_coverage.py)
    record_f,
    processed_set,
    count_new_processed,
    count_skipped,
    stat_ok,
    stat_fail,
    stat_timeout,
    \* what has happened, kept for the properties
    outcome,         \* this run: file -> how its runner call ended
    ledger0,         \* the lines of the ledger file when this run started
    load_failed,     \* some run could not read its ledger
    timed_out,       \* files recorded in the ledger after a timeout, in any run
    write_failed,    \* a write to the ledger has failed in this run
    after_failure,   \* files whose runner was called after that failure
    save_failed,     \* an archival has failed in this run
    unsaved,         \* this run: the files whose archival failed
    \* the coverage fragments and their index (run_coverage.py)
    incoming,        \* the fragments under COVERAGE_INCOMING_DIR
    index,           \* FINAL_PROFDATA
    profraw_files,   \* what the latest perform_merge_and_clean call listed
    finalizing,      \* the walk is over and the final call has been made
    fragments,       \* every fragment written so far
    merged,          \* fragment -> the successful merges it was passed to
    offered,         \* the fragments of the latest merge, if it failed
    merge_calls,     \* this run: how many times the merge tool was started
    remove_failed,   \* the latest removal loop left a fragment behind
    \* the classifier inputs and results
    cl_pc, cl_stderr, cl_stdout, cl_rc, cl_result,
    \* one match_and_save call (src/tools/ast.py)
    m_pc,
    snippet_code,    \* the snippet, as the tree the parser makes of it
    full_code,       \* the candidate file, likewise
    threshold,       \* in thousandths
    m_return,        \* what the call returned
    save_path,       \* the file at save_path: its content, or <<>> when absent
    \* filter_node's walk over the test corpus (src/agent/nodes.py)
    f_pc,
    defect_code,     \* the snippet taken from the reasoner's answer, as a tree
    f_todo,          \* the .rs files os.walk has not yielded yet, in its order
    matched_cases,   \* output/<issue>/matched_cases: file -> <<>> or its content
    f_seen,          \* the files whose iteration of the loop has ended
    \* the agent's state in the minify/verify loop (src/agent/state.py)
    a_pc,            \* the node that runs next
    original_code,
    current_code,
    best_code,
    iteration,
    consecutive_failure_count,
    status,
    rounds,          \* how many times verification_node has run
    verified,        \* the codes whose compiler output was classified ICE
    last_output      \* what the latest run_compiler call returned

envVars == <<script, tree, run, pc, todo, rs_file, tmpdirs, tmpdir, proc, tool, result>>
detectVars ==
    <<log_file, log_f, checked_files, processed_count, skipped_count,
      ice_found_count, ice_dir>>
coverageVars ==
    <<record_file, record_f, processed_set, count_new_processed, count_skipped,
      stat_ok, stat_fail, stat_timeout>>
historyVars ==
    <<outcome, ledger0, load_failed, timed_out, write_failed, after_failure, save_failed,
      unsaved>>
archiveHist == <<unsaved>>
mergeVars ==
    <<incoming, index, profraw_files, finalizing, fragments, merged, offered,
      merge_calls, remove_failed>>
classifyVars == <<cl_pc, cl_stderr, cl_stdout, cl_rc, cl_result>>
matchVars == <<m_pc, snippet_code, full_code, threshold, m_return, save_path>>
filterVars == <<f_pc, defect_code, f_todo, matched_cases, f_seen>>
agentVars ==
    <<a_pc, original_code, current_code, best_code, iteration,
      consecutive_failure_count, status, rounds, verified, last_output>>
vars ==
    <<envVars, detectVars, coverageVars, historyVars, mergeVars, classifyVars,
      matchVars, filterVars, agentVars>>

envVars_but_pc == <<script, tree, run, todo, rs_file, tmpdirs, tmpdir, proc, tool, result>>

envVars_but_pc_todo == <<script, tree, run, rs_file, tmpdirs, tmpdir, proc, tool, result>>

\* How a runner call ended, for the properties: the process ended by itself
\* with one of the signature literals in its text ("ice") or without
\* ("exit"), it was killed for running too long, or it never started.
Outcomes == {"ice", "exit", "timeout", "error"}

Ended(t) == IF is_ice(t.stderr \o t.stdout) THEN "ice" ELSE "exit"

NoOutcome == [n \in Names |-> "none"]

\* The memory of the script's process, as it is before main has run and
\* after the process has gone.
NoMemory ==
    /\ todo' = {}
    /\ rs_file' = <<>>
    /\ tmpdir' = 0
    /\ tool' = NoRun
    /\ result' = NoResult
    /\ checked_files' = {}
    /\ processed_count' = 0
    /\ skipped_count' = 0
    /\ ice_found_count' = 0
    /\ processed_set' = {}
    /\ count_new_processed' = 0
    /\ count_skipped' = 0
    /\ stat_ok' = 0
    /\ stat_fail' = 0
    /\ stat_timeout' = 0
    /\ outcome' = NoOutcome
    /\ ledger0' = {}
    /\ write_failed' = FALSE
    /\ after_failure' = {}
    /\ save_failed' = FALSE
    /\ unsaved' = {}
    /\ profraw_files' = {}
    /\ finalizing' = FALSE
    /\ offered' = {}
    /\ merge_calls' = 0
    /\ remove_failed' = FALSE

\* Nothing has run yet: no ledger, no archive, no scratch directory.
Fresh ==
    /\ run = 1
    /\ pc = "start"
    /\ todo = {}
    /\ rs_file = <<>>
    /\ tmpdirs = {}
    /\ tmpdir = 0
    /\ proc = "none"
    /\ tool = NoRun
    /\ result = NoResult
    /\ log_file = <<>>
    /\ log_f = <<>>
    /\ checked_files = {}
    /\ processed_count = 0
    /\ skipped_count = 0
    /\ ice_found_count = 0
    /\ ice_dir = {}
    /\ record_file = <<>>
    /\ record_f = <<>>
    /\ processed_set = {}
    /\ count_new_processed = 0
    /\ count_skipped = 0
    /\ stat_ok = 0
    /\ stat_fail = 0
    /\ stat_timeout = 0
    /\ outcome = NoOutcome
    /\ ledger0 = {}
    /\ load_failed = FALSE
    /\ timed_out = {}
    /\ write_failed = FALSE
    /\ after_failure = {}
    /\ save_failed = FALSE
    /\ unsaved = {}
    /\ incoming = {}
    /\ index = NoIndex
    /\ profraw_files = {}
    /\ finalizing = FALSE
    /\ fragments = {}
    /\ merged = EmptyBag
    /\ offered = {}
    /\ merge_calls = 0
    /\ remove_failed = FALSE

SweepInit ==
    /\ script \in {"detect", "coverage"}
    /\ tree \in Trees
    /\ Fresh

SweepIdle ==
    /\ script = "none"
    /\ tree = {}
    /\ Fresh

ClassifyIdle ==
    /\ cl_pc = "idle"
    /\ cl_stderr = <<>>
    /\ cl_stdout = <<>>
    /\ cl_rc = 0
    /\ cl_result = NoClassification

MatchIdle ==
    /\ m_pc = "idle"
    /\ snippet_code = <<>>
    /\ full_code = <<>>
    /\ threshold = 0
    /\ m_return = FALSE
    /\ save_path = <<>>

FilterIdle ==
    /\ f_pc = "idle"
    /\ defect_code = <<>>
    /\ f_todo = <<>>
    /\ matched_cases = <<>>
    /\ f_seen = {}

AgentIdle ==
    /\ a_pc = "idle"
    /\ original_code = <<>>
    /\ current_code = <<>>
    /\ best_code = <<>>
    /\ iteration = 0
    /\ consecutive_failure_count = 0
    /\ status = "init"
    /\ rounds = 0
    /\ verified = {}
    /\ last_output = <<>>

Init == SweepInit /\ ClassifyIdle /\ MatchIdle /\ FilterIdle /\ AgentIdle

\* ------------------------------------------------- scripts/detect.py main
\* Lines 125-152: the ledger is loaded (an unreadable file gives the empty
\* set), the tree is listed and LOG_FILE is opened for appending.
D_Start ==
    /\ script = "detect"
    /\ pc = "start"
    /\ \E readable \in BOOLEAN :
        /\ (~readable) => log_file # <<>>
        /\ checked_files' = IF readable THEN load_checked_files(log_file) ELSE {}
        /\ load_failed' = (load_failed \/ ~readable)
    /\ todo' = tree
    /\ ledger0' = Range(splitlines(log_file))
    /\ pc' = "loop"
    /\ UNCHANGED <<script, tree, run, rs_file, tmpdirs, tmpdir, proc, tool, result>>
    /\ UNCHANGED <<log_file, log_f, processed_count, skipped_count, ice_found_count, ice_dir>>
    /\ UNCHANGED <<coverageVars, classifyVars>>
    /\ UNCHANGED <<outcome, timed_out, write_failed, after_failure, save_failed>>
    /\ UNCHANGED mergeVars
    /\ UNCHANGED archiveHist
    /\ UNCHANGED <<matchVars, filterVars, agentVars>>

\* Lines 154-160: a file whose relative path is in checked_files is skipped.
D_Skip ==
    /\ script = "detect"
    /\ pc = "loop"
    /\ \E f \in todo :
        /\ RelDetect(f) \in checked_files
        /\ todo' = todo \ {f}
    /\ skipped_count' = skipped_count + 1
    /\ UNCHANGED <<script, tree, run, pc, rs_file, tmpdirs, tmpdir, proc, tool, result>>
    /\ UNCHANGED <<log_file, log_f, checked_files, processed_count, ice_found_count, ice_dir>>
    /\ UNCHANGED <<coverageVars, historyVars, classifyVars>>
    /\ UNCHANGED mergeVars
    /\ UNCHANGED <<matchVars, filterVars, agentVars>>

\* Lines 167 and 66-75: check_ice is called and makes its scratch directory.
D_Check ==
    /\ script = "detect"
    /\ pc = "loop"
    /\ \E f \in todo :
        /\ RelDetect(f) \notin checked_files
        /\ todo' = todo \ {f}
        /\ rs_file' = f
        /\ after_failure' = IF write_failed THEN after_failure \cup {f} ELSE after_failure
    /\ tmpdir' = FreshTmp(tmpdirs)
    /\ tmpdirs' = tmpdirs \cup {FreshTmp(tmpdirs)}
    /\ proc' = "none"
    /\ pc' = "compile"
    /\ UNCHANGED <<script, tree, run, tool, result>>
    /\ UNCHANGED <<detectVars, coverageVars, classifyVars>>
    /\ UNCHANGED <<outcome, ledger0, load_failed, timed_out, write_failed, save_failed>>
    /\ UNCHANGED mergeVars
    /\ UNCHANGED archiveHist
    /\ UNCHANGED <<matchVars, filterVars, agentVars>>

\* Lines 78-84: subprocess.run starts the toolchain.
D_Spawn ==
    /\ script = "detect"
    /\ pc = "compile"
    /\ proc' = "running"
    /\ pc' = "wait"
    /\ UNCHANGED <<script, tree, run, todo, rs_file, tmpdirs, tmpdir, tool, result>>
    /\ UNCHANGED <<detectVars, coverageVars, historyVars, classifyVars>>
    /\ UNCHANGED mergeVars
    /\ UNCHANGED <<matchVars, filterVars, agentVars>>

\* Lines 78 and 102-103: the process cannot be started; the exception leaves
\* the with block, which removes the directory, and check_ice returns
\* (False, "Script Error: ...").
D_SpawnFails ==
    /\ script = "detect"
    /\ pc = "compile"
    /\ result' = CheckIceError
    /\ tmpdirs' = RemoveTmp(tmpdirs, tmpdir)
    /\ UNCHANGED tmpdir
    /\ outcome' = [outcome EXCEPT ![rs_file] = "error"]
    /\ pc' = "checked"
    /\ UNCHANGED <<script, tree, run, todo, rs_file, proc, tool>>
    /\ UNCHANGED <<detectVars, coverageVars, classifyVars>>
    /\ UNCHANGED <<ledger0, load_failed, timed_out, write_failed, after_failure, save_failed>>
    /\ UNCHANGED mergeVars
    /\ UNCHANGED archiveHist
    /\ UNCHANGED <<matchVars, filterVars, agentVars>>

\* Lines 78-98: the process ends within TIMEOUT_SEC.
D_Exit ==
    /\ script = "detect"
    /\ pc = "wait"
    /\ \E t \in ToolRuns :
        /\ tool' = t
        /\ result' = CheckIceReturn(t.stderr, t.stdout, t.rc)
        /\ outcome' = [outcome EXCEPT ![rs_file] = Ended(t)]
    /\ proc' = "exited"
    /\ tmpdirs' = RemoveTmp(tmpdirs, tmpdir)
    /\ UNCHANGED tmpdir
    /\ pc' = "checked"
    /\ UNCHANGED <<script, tree, run, todo, rs_file>>
    /\ UNCHANGED <<detectVars, coverageVars, classifyVars>>
    /\ UNCHANGED <<ledger0, load_failed, timed_out, write_failed, after_failure, save_failed>>
    /\ UNCHANGED mergeVars
    /\ UNCHANGED archiveHist
    /\ UNCHANGED <<matchVars, filterVars, agentVars>>

\* Lines 78-84 and 100-101: the process is still running after TIMEOUT_SEC;
\* subprocess.run kills it, waits for it and raises TimeoutExpired.
D_Timeout ==
    /\ script = "detect"
    /\ pc = "wait"
    /\ \E t \in PartialRuns :
        /\ tool' = t
        /\ result' = CheckIceTimeout(t.stderr, t.stdout)
    /\ proc' = "killed"
    /\ tmpdirs' = RemoveTmp(tmpdirs, tmpdir)
    /\ UNCHANGED tmpdir
    /\ outcome' = [outcome EXCEPT ![rs_file] = "timeout"]
    /\ pc' = "checked"
    /\ UNCHANGED <<script, tree, run, todo, rs_file>>
    /\ UNCHANGED <<detectVars, coverageVars, classifyVars>>
    /\ UNCHANGED <<ledger0, load_failed, timed_out, write_failed, after_failure, save_failed>>
    /\ UNCHANGED mergeVars
    /\ UNCHANGED archiveHist
    /\ UNCHANGED <<matchVars, filterVars, agentVars>>

\* The copy, had main written the path to log_f before it called
\* save_ice_report.
MutSaveCopy ==
    /\ script = "detect"
    /\ pc = "checked"
    /\ result.is_ice
    /\ LET w == TextWrite(log_f, log_file, RelDetect(rs_file) \o <<"nl">>)
       IN  /\ log_f' = w.f
           /\ log_file' = w.file
    /\ ice_dir' = WriteFile(ice_dir, CopyName(RelDetect(rs_file)), SourceText(rs_file))
    /\ pc' = "save_log"
    /\ UNCHANGED envVars_but_pc
    /\ UNCHANGED <<checked_files, processed_count, skipped_count, ice_found_count>>
    /\ UNCHANGED <<coverageVars, historyVars, mergeVars, classifyVars, matchVars,
                   filterVars, agentVars>>

\* Lines 170-173 and 107-114, save_ice_report up to the copy: the mirrored
\* directory is made and the source copied, or one of the two raises and
\* the function returns False.
D_SaveCopy ==
    /\ script = "detect"
    /\ pc = "checked"
    /\ result.is_ice
    /\ \/ LET copy == CopyName(RelDetect(rs_file))
          IN  /\ ice_dir' = WriteFile(ice_dir, copy, SourceText(rs_file))
              /\ pc' = "save_log"
              /\ UNCHANGED <<save_failed, unsaved, ice_found_count>>
       \/ /\ save_failed' = TRUE
          /\ unsaved' = unsaved \cup {rs_file}
          /\ ice_found_count' = IceFound(ice_found_count, FALSE)
          /\ pc' = "record"
          /\ UNCHANGED ice_dir
    /\ UNCHANGED envVars_but_pc
    /\ UNCHANGED <<log_file, log_f, checked_files, processed_count, skipped_count>>
    /\ UNCHANGED <<coverageVars, classifyVars>>
    /\ UNCHANGED <<outcome, ledger0, load_failed, timed_out, write_failed, after_failure>>
    /\ UNCHANGED mergeVars
    /\ UNCHANGED <<matchVars, filterVars, agentVars>>

\* Lines 116-123 and 173-174: the log is written next to the copy and the
\* ICE is counted, or the write raises and the function returns False.
D_SaveLog ==
    /\ script = "detect"
    /\ pc = "save_log"
    /\ \/ LET log_path == ErrLogName(RelDetect(rs_file))
          IN  /\ ice_dir' = WriteFile(ice_dir, log_path, result.output)
              /\ ice_found_count' = IceFound(ice_found_count, TRUE)
              /\ UNCHANGED <<save_failed, unsaved>>
       \/ /\ save_failed' = TRUE
          /\ unsaved' = unsaved \cup {rs_file}
          /\ ice_found_count' = IceFound(ice_found_count, FALSE)
          /\ UNCHANGED ice_dir
    /\ pc' = "record"
    /\ UNCHANGED envVars_but_pc
    /\ UNCHANGED <<log_file, log_f, checked_files, processed_count, skipped_count>>
    /\ UNCHANGED <<coverageVars, classifyVars>>
    /\ UNCHANGED <<outcome, ledger0, load_failed, timed_out, write_failed, after_failure>>
    /\ UNCHANGED mergeVars
    /\ UNCHANGED <<matchVars, filterVars, agentVars>>

\* Lines 176-184: the relative path is written to log_f, the unit counted
\* and every BATCH_SIZE units log_f is flushed.  A write that raises is
\* caught nowhere in main: the with block closes log_f and the script ends.
D_Record ==
    /\ script = "detect"
    /\ \/ pc = "record"
       \/ pc = "checked" /\ ~result.is_ice
    /\ \/ LET w == TextWrite(log_f, log_file, RelDetect(rs_file) \o <<"nl">>)
              n == processed_count + 1
              b == IF n % BATCH_SIZE = 0 THEN Flush(w.f, w.file) ELSE w
          IN  /\ log_f' = b.f
              /\ log_file' = b.file
              /\ processed_count' = n
              /\ timed_out' = IF outcome[rs_file] = "timeout"
                               THEN timed_out \cup {rs_file} ELSE timed_out
              /\ pc' = "loop"
              /\ UNCHANGED write_failed
       \/ /\ write_failed' = TRUE
          /\ pc' = "crashed"
          /\ UNCHANGED <<log_f, log_file, processed_count, timed_out>>
    /\ rs_file' = <<>>
    /\ proc' = "none"
    /\ tool' = NoRun
    /\ result' = NoResult
    /\ UNCHANGED <<script, tree, run, todo, tmpdirs, tmpdir>>
    /\ UNCHANGED <<checked_files, skipped_count, ice_found_count, ice_dir>>
    /\ UNCHANGED <<coverageVars, classifyVars>>
    /\ UNCHANGED <<outcome, ledger0, load_failed, after_failure, save_failed>>
    /\ UNCHANGED mergeVars
    /\ UNCHANGED archiveHist
    /\ UNCHANGED <<matchVars, filterVars, agentVars>>

\* Lines 154 and 186-195: the list is exhausted, the with block closes log_f
\* and the counts are printed.
D_Finish ==
    /\ script = "detect"
    /\ pc = "loop"
    /\ todo = {}
    /\ log_f' = Flush(log_f, log_file).f
    /\ log_file' = Flush(log_f, log_file).file
    /\ pc' = "done"
    /\ UNCHANGED envVars_but_pc
    /\ UNCHANGED <<checked_files, processed_count, skipped_count, ice_found_count, ice_dir>>
    /\ UNCHANGED <<coverageVars, historyVars, classifyVars>>
    /\ UNCHANGED mergeVars
    /\ UNCHANGED <<matchVars, filterVars, agentVars>>

\* ------------------------------------------- scripts/run_coverage.py main
\* Lines 109-130: the record file is loaded (one whose read raises gives the
\* lines read until then) and opened for appending; os.walk lists the tree.
R_Start ==
    /\ script = "coverage"
    /\ pc = "start"
    /\ \/ /\ processed_set' = load_processed_files(record_file)
          /\ UNCHANGED load_failed
       \/ /\ record_file # <<>>
          /\ \E k \in 0..(Len(splitlines(record_file)) - 1) :
                processed_set' = PartlyLoaded(record_file, k)
          /\ load_failed' = TRUE
    /\ todo' = tree
    /\ ledger0' = Range(splitlines(record_file))
    /\ pc' = "loop"
    /\ UNCHANGED envVars_but_pc_todo
    /\ UNCHANGED <<record_file, record_f, count_new_processed, count_skipped,
                   stat_ok, stat_fail, stat_timeout>>
    /\ UNCHANGED <<detectVars, classifyVars, matchVars, filterVars, agentVars>>
    /\ UNCHANGED <<outcome, timed_out, write_failed, after_failure, save_failed>>
    /\ UNCHANGED <<archiveHist, mergeVars>>

\* Lines 131-140: a file whose relative path is in processed_set is skipped.
R_Skip ==
    /\ script = "coverage"
    /\ pc = "loop"
    /\ \E f \in todo :
        /\ RelCoverage(f) \in processed_set
        /\ todo' = todo \ {f}
    /\ count_skipped' = count_skipped + 1
    /\ UNCHANGED envVars_but_pc_todo
    /\ UNCHANGED <<pc, record_file, record_f, processed_set, count_new_processed,
                   stat_ok, stat_fail, stat_timeout>>
    /\ UNCHANGED <<detectVars, historyVars, mergeVars, classifyVars, matchVars, filterVars, agentVars>>

\* Lines 143-149: the scratch directory of the unit is made.
R_Check ==
    /\ script = "coverage"
    /\ pc = "loop"
    /\ \E f \in todo :
        /\ RelCoverage(f) \notin processed_set
        /\ todo' = todo \ {f}
        /\ rs_file' = f
        /\ after_failure' = IF write_failed THEN after_failure \cup {f} ELSE after_failure
    /\ tmpdir' = FreshTmp(tmpdirs)
    /\ tmpdirs' = tmpdirs \cup {FreshTmp(tmpdirs)}
    /\ proc' = "none"
    /\ pc' = "compile"
    /\ UNCHANGED <<script, tree, run, tool, result>>
    /\ UNCHANGED <<detectVars, coverageVars, classifyVars, matchVars, filterVars, agentVars>>
    /\ UNCHANGED <<outcome, ledger0, load_failed, timed_out, write_failed, save_failed>>
    /\ UNCHANGED <<archiveHist, mergeVars>>

\* Lines 151-160: subprocess.run starts the compiler.
R_Spawn ==
    /\ script = "coverage"
    /\ pc = "compile"
    /\ proc' = "running"
    /\ pc' = "wait"
    /\ UNCHANGED <<script, tree, run, todo, rs_file, tmpdirs, tmpdir, tool, result>>
    /\ UNCHANGED <<detectVars, coverageVars, historyVars, mergeVars, classifyVars,
                   matchVars, filterVars, agentVars>>

\* Lines 153 and 184-185: the process cannot be started; the exception is
\* printed, nothing is recorded and the iteration goes on to the batch check.
R_SpawnFails ==
    /\ script = "coverage"
    /\ pc = "compile"
    /\ tmpdirs' = RemoveTmp(tmpdirs, tmpdir)
    /\ UNCHANGED tmpdir
    /\ outcome' = [outcome EXCEPT ![rs_file] = "error"]
    /\ rs_file' = <<>>
    /\ pc' = "batch"
    /\ UNCHANGED <<script, tree, run, todo, proc, tool, result>>
    /\ UNCHANGED <<detectVars, coverageVars, classifyVars, matchVars, filterVars, agentVars>>
    /\ UNCHANGED <<ledger0, load_failed, timed_out, write_failed, after_failure, save_failed>>
    /\ UNCHANGED <<archiveHist, mergeVars>>

\* Lines 153-172 and 184-185: the process ends within TIMEOUT_SEC, leaving its
\* fragment under COVERAGE_INCOMING_DIR; the path is written to record_f and
\* the unit counted by its return code.  The write is inside the try: if it
\* raises, except Exception prints it and the iteration goes on.  Of what the
\* process wrote and returned, this script reads the return code only.
R_Exit ==
    /\ script = "coverage"
    /\ pc = "wait"
    /\ \E t \in ToolRuns :
        /\ outcome' = [outcome EXCEPT ![rs_file] = "exit"]
        /\ \/ LET w == TextWrite(record_f, record_file,
                                  RelCoverage(rs_file) \o <<"nl">>)
              IN  /\ record_f' = w.f
                  /\ record_file' = w.file
                  /\ processed_set' = processed_set \cup {RelCoverage(rs_file)}
                  /\ count_new_processed' = count_new_processed + 1
                  /\ stat_ok' = IF t.rc = 0 THEN stat_ok + 1 ELSE stat_ok
                  /\ stat_fail' = IF t.rc = 0 THEN stat_fail ELSE stat_fail + 1
                  /\ UNCHANGED write_failed
           \/ /\ write_failed' = TRUE
              /\ UNCHANGED <<record_f, record_file, processed_set,
                             count_new_processed, stat_ok, stat_fail>>
    /\ incoming' = incoming \cup {Fragment(run, rs_file)}
    /\ fragments' = fragments \cup {Fragment(run, rs_file)}
    /\ tmpdirs' = RemoveTmp(tmpdirs, tmpdir)
    /\ UNCHANGED tmpdir
    /\ proc' = "exited"
    /\ rs_file' = <<>>
    /\ pc' = "batch"
    /\ UNCHANGED <<script, tree, run, todo, tool, result>>
    /\ UNCHANGED <<count_skipped, stat_timeout>>
    /\ UNCHANGED <<detectVars, classifyVars, matchVars, filterVars, agentVars>>
    /\ UNCHANGED <<ledger0, load_failed, timed_out, after_failure, save_failed>>
    /\ UNCHANGED archiveHist
    /\ UNCHANGED <<index, profraw_files, finalizing, merged, offered, merge_calls,
                   remove_failed>>

\* Lines 153 and 174-182: the process is still running after TIMEOUT_SEC and
\* is killed before it writes a fragment; the timeout is counted and the path
\* written to record_f.  This write is inside the except clause: if it
\* raises, nothing catches it, the with blocks are left and the script ends.
R_Timeout ==
    /\ script = "coverage"
    /\ pc = "wait"
    /\ stat_timeout' = stat_timeout + 1
    /\ \/ LET w == TextWrite(record_f, record_file, RelCoverage(rs_file) \o <<"nl">>)
          IN  /\ record_f' = w.f
              /\ record_file' = w.file
              /\ processed_set' = processed_set \cup {RelCoverage(rs_file)}
              /\ count_new_processed' = count_new_processed + 1
              /\ timed_out' = timed_out \cup {rs_file}
              /\ pc' = "batch"
              /\ UNCHANGED write_failed
       \/ /\ write_failed' = TRUE
          /\ pc' = "crashed"
          /\ UNCHANGED <<record_f, record_file, processed_set, count_new_processed,
                         timed_out>>
    /\ tmpdirs' = RemoveTmp(tmpdirs, tmpdir)
    /\ UNCHANGED tmpdir
    /\ proc' = "killed"
    /\ outcome' = [outcome EXCEPT ![rs_file] = "timeout"]
    /\ rs_file' = <<>>
    /\ UNCHANGED <<script, tree, run, todo, tool, result>>
    /\ UNCHANGED <<count_skipped, stat_ok, stat_fail>>
    /\ UNCHANGED <<detectVars, classifyVars, matchVars, filterVars, agentVars>>
    /\ UNCHANGED <<ledger0, load_failed, after_failure, save_failed>>
    /\ UNCHANGED <<archiveHist, mergeVars>>

\* perform_merge_and_clean, lines 60-63: no fragment is listed and the
\* function returns.
MergeNothing ==
    /\ incoming = {}
    /\ profraw_files' = {}
    /\ UNCHANGED merge_calls

\* perform_merge_and_clean, lines 60-80: the fragments are listed, the
\* command is built from the index (if there is one), the fragments and
\* -o FINAL_PROFDATA, and the merge tool is started.
MergeBegin ==
    /\ incoming # {}
    /\ profraw_files' = incoming
    /\ merge_calls' = merge_calls + 1
    /\ pc' = "merge_wait"

\* Lines 187-195 after a unit: fewer fragments than BATCH_SIZE are pending and
\* nothing is done.
R_BatchSkip ==
    /\ script = "coverage"
    /\ pc = "batch"
    /\ ~ShouldMerge(Cardinality(incoming))
    /\ proc' = "none"
    /\ pc' = "loop"
    /\ UNCHANGED <<script, tree, run, todo, rs_file, tmpdirs, tmpdir, tool, result>>
    /\ UNCHANGED <<detectVars, coverageVars, historyVars, mergeVars, classifyVars,
                   matchVars, filterVars, agentVars>>

\* Lines 187-195 after a unit: BATCH_SIZE fragments or more are pending and
\* perform_merge_and_clean is called.
R_BatchMerge ==
    /\ script = "coverage"
    /\ pc = "batch"
    /\ ShouldMerge(Cardinality(incoming))
    /\ MergeBegin
    /\ proc' = "none"
    /\ UNCHANGED <<script, tree, run, todo, rs_file, tmpdirs, tmpdir, tool, result>>
    /\ UNCHANGED <<detectVars, coverageVars, historyVars, classifyVars, matchVars, filterVars, agentVars>>
    /\ UNCHANGED <<incoming, index, finalizing, fragments, merged, offered,
                   remove_failed>>

\* Lines 130-131: the walk is over and the with block closes record_f.
R_Finish ==
    /\ script = "coverage"
    /\ pc = "loop"
    /\ todo = {}
    /\ record_f' = Flush(record_f, record_file).f
    /\ record_file' = Flush(record_f, record_file).file
    /\ pc' = "final"
    /\ UNCHANGED envVars_but_pc
    /\ UNCHANGED <<processed_set, count_new_processed, count_skipped,
                   stat_ok, stat_fail, stat_timeout>>
    /\ UNCHANGED <<detectVars, historyVars, mergeVars, classifyVars, matchVars, filterVars, agentVars>>

\* Lines 197-208: the final perform_merge_and_clean call finds no fragment;
\* the counts are printed.
R_FinalNone ==
    /\ script = "coverage"
    /\ pc = "final"
    /\ MergeNothing
    /\ finalizing' = TRUE
    /\ pc' = "done"
    /\ UNCHANGED envVars_but_pc
    /\ UNCHANGED <<detectVars, coverageVars, historyVars, classifyVars, matchVars, filterVars, agentVars>>
    /\ UNCHANGED <<incoming, index, fragments, merged, offered, remove_failed>>

\* Lines 197-199: the final perform_merge_and_clean call finds fragments,
\* however few.
R_FinalMerge ==
    /\ script = "coverage"
    /\ pc = "final"
    /\ MergeBegin
    /\ finalizing' = TRUE
    /\ UNCHANGED envVars_but_pc
    /\ UNCHANGED <<detectVars, coverageVars, historyVars, classifyVars, matchVars, filterVars, agentVars>>
    /\ UNCHANGED <<incoming, index, fragments, merged, offered, remove_failed>>

\* Where perform_merge_and_clean returns to, its listing gone with it: the
\* walk, or the end of main.
MergeReturn == IF finalizing THEN "done" ELSE "loop"

\* perform_merge_and_clean, line 80: the merge tool exits with 0, having
\* written the index.
M_Ok ==
    /\ script = "coverage"
    /\ pc = "merge_wait"
    /\ \E e \in MergeEnds(index, profraw_files) :
        /\ e.ok
        /\ index' = e.index
    /\ merged' = merged (+) SetToBag(profraw_files)
    /\ offered' = {}
    /\ pc' = "clean"
    /\ UNCHANGED envVars_but_pc
    /\ UNCHANGED <<detectVars, coverageVars, historyVars, classifyVars, matchVars, filterVars, agentVars>>
    /\ UNCHANGED <<incoming, profraw_files, finalizing, fragments, merge_calls,
                   remove_failed>>

\* perform_merge_and_clean, lines 80 and 94-95: the merge tool exits with
\* another code; CalledProcessError is printed and the function returns.
M_Fail ==
    /\ script = "coverage"
    /\ pc = "merge_wait"
    /\ \E e \in MergeEnds(index, profraw_files) :
        /\ ~e.ok
        /\ index' = e.index
    /\ offered' = profraw_files
    /\ profraw_files' = {}
    /\ pc' = MergeReturn
    /\ UNCHANGED envVars_but_pc
    /\ UNCHANGED <<detectVars, coverageVars, historyVars, classifyVars, matchVars, filterVars, agentVars>>
    /\ UNCHANGED <<incoming, finalizing, fragments, merged, merge_calls, remove_failed>>

\* The removal loop, had it listed the directory again.
MutClean ==
    /\ script = "coverage"
    /\ pc = "clean"
    /\ incoming' = {}
    /\ remove_failed' = FALSE
    /\ profraw_files' = {}
    /\ pc' = MergeReturn
    /\ UNCHANGED envVars_but_pc
    /\ UNCHANGED <<detectVars, coverageVars, historyVars, classifyVars, matchVars,
                   filterVars, agentVars>>
    /\ UNCHANGED <<index, finalizing, fragments, merged, offered, merge_calls>>

\* perform_merge_and_clean, lines 82-92: every listed fragment is removed; a
\* removal that raises OSError is passed over and the fragment stays.
M_Clean ==
    /\ script = "coverage"
    /\ pc = "clean"
    /\ \E kept \in {k \in SUBSET profraw_files : Cardinality(k) <= 1} :
        /\ incoming' = incoming \ (profraw_files \ kept)
        /\ remove_failed' = (kept # {})
    /\ profraw_files' = {}
    /\ pc' = MergeReturn
    /\ UNCHANGED envVars_but_pc
    /\ UNCHANGED <<detectVars, coverageVars, historyVars, classifyVars, matchVars, filterVars, agentVars>>
    /\ UNCHANGED <<index, finalizing, fragments, merged, offered, merge_calls>>

\* ------------------------------------------------------ the script's process
Running ==
    pc \in {"loop", "compile", "wait", "checked", "save_log", "record",
            "batch", "merge_wait", "clean", "final"}

\* The process is killed outright: what its streams had not sent to their
\* files is lost, the scratch directory stays and a child that is running
\* runs on; a merge tool that runs on ends in one of its three ways.
Kill ==
    /\ Running
    /\ pc' = "dead"
    /\ NoMemory
    /\ log_f' = <<>>
    /\ record_f' = <<>>
    /\ IF pc = "merge_wait"
       THEN \E e \in MergeEnds(index, profraw_files) :
                /\ index' = e.index
                /\ merged' = IF e.ok THEN merged (+) SetToBag(profraw_files) ELSE merged
       ELSE UNCHANGED <<index, merged>>
    /\ UNCHANGED <<script, tree, run, tmpdirs, proc, log_file, ice_dir, record_file>>
    /\ UNCHANGED <<load_failed, timed_out, incoming, fragments, classifyVars, matchVars, filterVars, agentVars>>

\* scripts/detect.py:197-201 and scripts/run_coverage.py:210-214:
\* KeyboardInterrupt unwinds main.  subprocess.run kills a child that is
\* running (a merge tool killed while it writes leaves what it has written),
\* the with blocks remove the scratch directory and close the ledger stream,
\* and the script ends.
Interrupt ==
    /\ Running
    /\ pc' = "stopped"
    /\ NoMemory
    /\ proc' = IF proc = "running" THEN "killed" ELSE proc
    /\ tmpdirs' = RemoveTmp(tmpdirs, tmpdir)
    /\ log_f' = Flush(log_f, log_file).f
    /\ log_file' = Flush(log_f, log_file).file
    /\ record_f' = Flush(record_f, record_file).f
    /\ record_file' = Flush(record_f, record_file).file
    /\ IF pc = "merge_wait"
       THEN \E e \in MergeEnds(index, profraw_files) :
                /\ ~e.ok
                /\ index' = e.index
       ELSE UNCHANGED index
    /\ UNCHANGED <<script, tree, run, ice_dir>>
    /\ UNCHANGED <<load_failed, timed_out, incoming, fragments, merged, classifyVars,
                   matchVars, filterVars, agentVars>>

\* The script is started again over the same tree.
Restart ==
    /\ pc \in {"done", "dead", "stopped", "crashed"}
    /\ run < MaxRuns
    /\ run' = run + 1
    /\ pc' = "start"
    /\ NoMemory
    /\ proc' = "none"
    /\ UNCHANGED <<script, tree, tmpdirs, log_file, log_f, ice_dir, record_file,
                   record_f>>
    /\ UNCHANGED <<load_failed, timed_out, incoming, index, fragments, merged,
                   classifyVars, matchVars, filterVars, agentVars>>

Next ==
    \/ D_Start \/ D_Skip \/ D_Check \/ D_Spawn \/ D_SpawnFails \/ D_Exit \/ D_Timeout
    \/ D_SaveCopy \/ D_SaveLog \/ D_Record \/ D_Finish
    \/ R_Start \/ R_Skip \/ R_Check \/ R_Spawn \/ R_SpawnFails \/ R_Exit \/ R_Timeout
    \/ R_BatchSkip \/ R_BatchMerge \/ R_Finish \/ R_FinalNone \/ R_FinalMerge
    \/ M_Ok \/ M_Fail \/ M_Clean
    \/ Kill \/ Interrupt \/ Restart

Spec == Init /\ [][Next]_vars

\* scripts/detect.py alone, started over and over on one tree.
DetectInit ==
    /\ script = "detect"
    /\ tree \in Trees
    /\ Fresh
    /\ ClassifyIdle
    /\ MatchIdle
    /\ FilterIdle
    /\ AgentIdle

DetectNext ==
    \/ D_Start \/ D_Skip \/ D_Check \/ D_Spawn \/ D_SpawnFails \/ D_Exit \/ D_Timeout
    \/ D_SaveCopy \/ D_SaveLog \/ D_Record \/ D_Finish
    \/ Kill \/ Interrupt \/ Restart

SpecDetect == DetectInit /\ [][DetectNext]_vars

\* scripts/run_coverage.py started once, with nothing on disk, on a tree of
\* 2 * BATCH_SIZE files.
MergeInit ==
    /\ script = "coverage"
    /\ tree = Names
    /\ Fresh
    /\ ClassifyIdle
    /\ MatchIdle
    /\ FilterIdle
    /\ AgentIdle

MergeNext ==
    \/ R_Start \/ R_Check \/ R_Spawn \/ R_SpawnFails \/ R_Exit \/ R_Timeout
    \/ R_BatchSkip \/ R_BatchMerge \/ R_Finish \/ R_FinalNone \/ R_FinalMerge
    \/ M_Ok \/ M_Fail \/ M_Clean

SpecMerge == MergeInit /\ [][MergeNext]_vars

\* ------------------------------------------------------------ classifiers
\* The characters of the texts the classifiers are tried on.
ClassifyChars == {"i", "c", "e", "I", "C", "B", "A", "a"}

Texts(n) == UNION {[1..k -> ClassifyChars] : k \in 0..n}

\* One ended toolchain process: its two streams and its return code.
ClassifyInit ==
    /\ SweepIdle
    /\ MatchIdle
    /\ FilterIdle
    /\ AgentIdle
    /\ cl_pc = "input"
    /\ cl_stderr \in Texts(MaxOut)
    /\ cl_stdout \in Texts(MaxOut - Len(cl_stderr))
    /\ cl_rc \in {0, 1}
    /\ cl_result = NoClassification

\* The three classifiers of the repository on that process.
Classify ==
    /\ cl_pc = "input"
    /\ cl_result' =
        [check_ice |-> CheckIceReturn(cl_stderr, cl_stdout, cl_rc).is_ice,
         compile_and_check |-> compile_and_check(cl_stderr, cl_stdout, cl_rc).is_ice,
         check_is_ice |-> check_is_ice(run_compiler(cl_stderr, cl_stdout))]
    /\ cl_pc' = "done"
    /\ UNCHANGED <<cl_stderr, cl_stdout, cl_rc>>
    /\ UNCHANGED <<envVars, detectVars, coverageVars, historyVars>>
    /\ UNCHANGED mergeVars
    /\ UNCHANGED <<matchVars, filterVars, agentVars>>

ClassifyNext == Classify

SpecClassify == ClassifyInit /\ [][ClassifyNext]_vars

\* ------------------------------------------------------ one matching query
\* match_and_save is called on a snippet and a file, save_path absent or
\* left by an earlier query.
MatchInit ==
    /\ SweepIdle
    /\ ClassifyIdle
    /\ FilterIdle
    /\ AgentIdle
    /\ m_pc = "call"
    /\ snippet_code \in Snippets
    /\ full_code \in FullCodes(snippet_code)
    /\ threshold \in Thresholds
    /\ m_return = FALSE
    /\ save_path \in {<<>>, OldFile}

\* src/tools/ast.py, lines 79-133.
MatchAndSave ==
    /\ m_pc = "call"
    /\ LET r == match_and_save(snippet_code, full_code, save_path, threshold)
       IN  /\ m_return' = r.return
           /\ save_path' = r.file
    /\ m_pc' = "done"
    /\ UNCHANGED <<snippet_code, full_code, threshold>>
    /\ UNCHANGED <<envVars, detectVars, coverageVars, historyVars, mergeVars,
                   classifyVars, filterVars, agentVars>>

MatchNext == MatchAndSave

SpecMatch == MatchInit /\ [][MatchNext]_vars

\* -------------------------------------------------------------- properties
\* The running script's ledger: the path it records for a file, its ledger
\* file and the stream it writes it through.
Rel(f) == IF script = "detect" THEN RelDetect(f) ELSE RelCoverage(f)
LedgerFile == IF script = "detect" THEN log_file ELSE record_file
LedgerStream == IF script = "detect" THEN log_f ELSE record_f
LedgerLines == splitlines(LedgerFile)

NoDuplicates(q) == \A i, j \in 1..Len(q) : q[i] = q[j] => i = j

\* The runner has been called on rs_file in this run.
InCall == pc \in {"compile", "wait"}
AfterCall == pc \in {"checked", "save_log", "record"}

\* C1. Idempotent resume: when a sweep started again over the same tree has
\* run to completion (its ledger was readable at every start, no ledger
\* write failed and every toolchain process started), every unit of the tree
\* is in the ledger file exactly once: no line occurs twice, and the lines
\* are the paths one uninterrupted sweep records.
C1_IdempotentResume ==
    ( /\ pc = "done"
      /\ run > 1
      /\ ~load_failed
      /\ ~write_failed
      /\ \A f \in tree : outcome[f] # "error" )
    => /\ NoDuplicates(LedgerLines)
       /\ Range(LedgerLines) = {Rel(f) : f \in tree}

\* C2. A relative path that is a line of the ledger file when a sweep starts
\* is never handed to the runner in that sweep (the ledger being readable).
C2_LedgeredNeverRerun ==
    (pc = "compile" /\ ~load_failed) => Rel(rs_file) \notin ledger0

\* C3. A unit the runner was called on is in the ledger once its iteration
\* is over, whether the process ended by itself (cleanly, with an error, with
\* an ICE) or timed out; and a unit recorded after a timeout is not handed to
\* the runner by a later sweep.
C3_LedgeredWhateverOutcome ==
    /\ (pc \in {"loop", "done"} /\ ~write_failed) =>
          \A f \in tree :
              outcome[f] \in {"ice", "exit", "timeout"} => Rel(f) \in Range(LedgerLines)
    /\ (pc = "compile" /\ ~load_failed) => rs_file \notin timed_out

\* The paths log_f has taken and not sent to the file.
Unflushed == Cardinality({i \in 1..Len(LedgerStream) : LedgerStream[i] = "nl"})

\* C4. Bounded loss: fewer than BATCH_SIZE recorded units are missing from
\* the ledger file at any moment, and a sweep that has read the ledger file
\* holds every line of it in its loaded set.
C4_BoundedLoss ==
    /\ Unflushed < BATCH_SIZE
    /\ (script = "detect" /\ pc \notin {"start", "dead", "stopped"} /\ ~load_failed)
          => ledger0 \subseteq checked_files

\* One of the signatures occurs in the text, letter case ignored.
SignatureIn(sigs, text) == \E k \in sigs : Contains(lower(k), lower(text))

\* C5. Each classifier reports an ICE whenever one of its signatures occurs
\* in stderr + stdout, letter case ignored, whatever the return code.
C5_CaseInsensitiveSignature ==
    cl_pc = "done" =>
        /\ SignatureIn(ICE_SIGNATURES, cl_stderr \o cl_stdout) =>
              (cl_result.check_ice /\ cl_result.compile_and_check)
        /\ SignatureIn(keywords, cl_stderr \o cl_stdout) => cl_result.check_is_ice

\* C6. Timeout comes first: a runner call that ran into the timeout returns
\* (False, "Timeout") whatever the killed process had written, so the unit
\* does not reach the archiver; and once a runner call is over, its process
\* is not running.
C6_TimeoutFirst ==
    /\ (script = "detect" /\ AfterCall /\ outcome[rs_file] = "timeout") =>
          /\ result = [is_ice |-> FALSE, output |-> <<"Timeout">>]
          /\ pc # "save_log"
          /\ proc = "killed"
    /\ (pc \in {"loop", "checked", "save_log", "record", "done", "crashed"}) =>
          proc # "running"

C6_Witness ==
    /\ script = "detect"
    /\ pc = "checked"
    /\ outcome[rs_file] = "timeout"
    /\ is_ice(tool.stderr \o tool.stdout)

\* What check_ice can return for a process that started.
Classified ==
    {CheckIceReturn(t.stderr, t.stdout, t.rc) : t \in ToolRuns}
        \cup {CheckIceTimeout(t.stderr, t.stdout) : t \in PartialRuns}

\* C7. A process that could not be started is reported apart from every
\* classification: the verdict check_ice returns for it is the verdict of
\* no process that started.
C7_SpawnFailureDistinct ==
    (script = "detect" /\ pc = "checked" /\ outcome[rs_file] = "error") =>
        \A r \in Classified : r.is_ice # result.is_ice

\* C8. Scratch cleanup: the directory of a runner call is a new one, and when
\* the call is over (the process ended, timed out or never started) it is
\* gone.
C8_ScratchCleanup ==
    /\ InCall => tmpdir \in tmpdirs
    /\ (pc \in {"loop", "checked", "save_log", "record", "done", "crashed"}) =>
          tmpdir \notin tmpdirs

C8_Witness ==
    /\ pc = "checked"
    /\ outcome[rs_file] = "error"
    /\ tmpdir # 0
    /\ tmpdirs # {}

\* The units of this run whose process ended with a signature in its text.
IceUnits == {f \in tree : outcome[f] = "ice"}

\* C9. Accounting: after a complete first sweep (empty ledger, empty archive)
\* in which no archival failed, the ledger file has one line per unit, the
\* archive holds the source copy and the log of every ICE unit and nothing
\* else, and the counts are the number of units and of ICE units.
C9_Accounting ==
    (script = "detect" /\ pc = "done" /\ run = 1 /\ ~save_failed) =>
        /\ Len(LedgerLines) = Cardinality(tree)
        /\ Range(LedgerLines) = {RelDetect(f) : f \in tree}
        /\ Paths(ice_dir) = {RelDetect(f) : f \in IceUnits}
                                \cup {ErrLogName(RelDetect(f)) : f \in IceUnits}
        /\ \A e \in ice_dir : \A f \in IceUnits :
              e.path = RelDetect(f) => e.content = SourceText(f)
        /\ processed_count = Cardinality(tree)
        /\ ice_found_count = Cardinality(IceUnits)

C9_Witness ==
    /\ script = "detect"
    /\ pc = "done"
    /\ run = 1
    /\ ~save_failed
    /\ Cardinality(tree) = 2
    /\ Cardinality(IceUnits) = 1
    /\ \E f \in tree : outcome[f] = "timeout"

\* C10. A failed write to the ledger ends the sweep: the runner is called on
\* no further unit.
C10_LedgerFailureFatal == after_failure = {}

\* C11. An archival that fails does not end the sweep: the only failure that
\* ends it is a ledger write; the unit whose archival failed is a line of the
\* ledger once its iteration is over; and the ICE count is the number of ICE
\* units whose archival succeeded.
C11_ArchivalFailureNotFatal ==
    script = "detect" =>
        /\ pc = "crashed" => write_failed
        /\ (pc = "record" /\ rs_file \in unsaved) => ~write_failed
        /\ pc \in {"loop", "done"} =>
              /\ \A f \in unsaved : RelDetect(f) \in Range(LedgerLines)
              /\ ice_found_count = Cardinality(IceUnits \ unsaved)

C11_Witness ==
    /\ script = "detect"
    /\ pc = "compile"
    /\ unsaved # {}
    /\ rs_file \notin unsaved
    /\ \A f \in unsaved : RelDetect(f) \in Range(LedgerLines)
    /\ ice_found_count = 0

\* C12. Archiver mirroring: every file of the archive is, for a unit
\* <dir>/<stem>.rs of the tree, <dir>/<stem>.rs holding the unit's source or
\* <dir>/<stem>.err.log; a path is held once; and when an archival has
\* succeeded the archive holds the unit's source at the first path and the
\* diagnostics of this very call at the second, whatever was there before.
\* save_ice of src/tools/detect.py writes the same two files.
C12_ArchiverMirroring ==
    script = "detect" =>
        /\ \A e \in ice_dir : \E f \in tree :
              \/ /\ e.path = parent(f) \o stem(f) \o <<"rs">>
                 /\ e.content = SourceText(f)
              \/ e.path = parent(f) \o stem(f) \o <<"err.log">>
        /\ \A p \in Paths(ice_dir) : Cardinality({e \in ice_dir : e.path = p}) = 1
        /\ (pc = "record" /\ rs_file \notin unsaved) =>
              LET src == [path |-> parent(rs_file) \o stem(rs_file) \o <<"rs">>,
                          content |-> SourceText(rs_file)]
                  log == [path |-> parent(rs_file) \o stem(rs_file) \o <<"err.log">>,
                          content |-> result.output]
              IN  /\ src \in ice_dir
                  /\ log \in ice_dir
                  /\ save_ice(ice_dir, rs_file, result.output) = ice_dir
                  /\ save_ice({}, rs_file, result.output) = {src, log}

C12_Witness ==
    /\ script = "detect"
    /\ pc = "save_log"
    /\ parent(rs_file) # <<>>
    /\ \E e \in ice_dir :
          /\ e.path = ErrLogName(RelDetect(rs_file))
          /\ e.content # result.output

\* C13. Every fragment is merged exactly once and then deleted: no fragment
\* has been passed to two successful merges, and a fragment that is no longer
\* on disk has been passed to one.
C13_MergedExactlyOnce ==
    /\ \A fr \in fragments : CopiesIn(fr, merged) <= 1
    /\ \A fr \in fragments \ incoming : CopiesIn(fr, merged) >= 1


\* C14. When the merge tool reports failure the listed fragments stay on
\* disk, the sweep goes on (only a ledger write can end it), the same
\* fragments are listed again by the next merge, and the index is not
\* replaced: it holds what the successful merges gave it, no more and no less.
C14_MergeFailureRetains ==
    script = "coverage" =>
        /\ offered \subseteq incoming
        /\ pc = "merge_wait" => offered \subseteq profraw_files
        /\ pc = "crashed" => write_failed
        /\ index.state # "partial"
        /\ index.merged = merged

\* The parts of C14 that are about the fragments and the sweep.
C14_FragmentsRetained ==
    script = "coverage" =>
        /\ offered \subseteq incoming
        /\ pc = "merge_wait" => offered \subseteq profraw_files
        /\ pc = "crashed" => write_failed

\* C15. After a unit the merge tool is started only if at least BATCH_SIZE
\* fragments are pending, and otherwise the batch check changes neither the
\* fragments nor the index; when the walk is over one more merge is made
\* whatever the number of pending fragments, so a sweep whose last merge and
\* removals succeeded leaves none pending.
C15_MergeTriggering ==
    /\ []( (pc \in {"merge_wait", "clean"} /\ ~finalizing) =>
              ShouldMerge(Cardinality(profraw_files)) )
    /\ [][ (pc = "batch" /\ Cardinality(incoming) < COVERAGE_BATCH_SIZE) =>
              /\ pc' # "merge_wait"
              /\ incoming' = incoming
              /\ index' = index
              /\ merged' = merged ]_vars
    /\ []( pc = "done" /\ script = "coverage" =>
              /\ finalizing
              /\ (offered = {} /\ ~remove_failed) => incoming = {} )

\* The final merge has succeeded on fewer than BATCH_SIZE fragments, after an
\* earlier merge in the same sweep.
C15_Witness ==
    /\ script = "coverage"
    /\ pc = "clean"
    /\ finalizing
    /\ Cardinality(profraw_files) < COVERAGE_BATCH_SIZE
    /\ merge_calls >= 2

\* C16. A sweep that produces 2 * BATCH_SIZE fragments, one per unit, starts
\* the merge tool at least twice; when it is over and its last merge and
\* removals succeeded, no fragment is pending and every fragment produced is
\* in the index.
C16_MergeBatching ==
    ( /\ script = "coverage"
      /\ pc = "done"
      /\ Cardinality(tree) = 2 * COVERAGE_BATCH_SIZE
      /\ fragments = {Fragment(run, f) : f \in tree} )
    => /\ merge_calls >= 2
       /\ (offered = {} /\ ~remove_failed) =>
             /\ incoming = {}
             /\ index.state = "valid"
             /\ BagToSet(index.merged) = fragments

C16_Witness ==
    /\ script = "coverage"
    /\ pc = "done"
    /\ Cardinality(tree) = 2 * COVERAGE_BATCH_SIZE
    /\ fragments = {Fragment(run, f) : f \in tree}
    /\ merge_calls >= 2
    /\ incoming = {}
    /\ \A fr \in fragments : CopiesIn(fr, index.merged) = 1

\* C17. The index is never left half written: whatever happens to a merge,
\* FINAL_PROFDATA is absent or a complete index.
C17_IndexNeverPartial == index.state # "partial"

\* No named node of the tree below the wrapper has a named child: the chains
\* of named nodes have length 1 at most.
Flat(root_node) ==
    \A i \in 1..Len(named_children(root_node)) :
        named_children(named_children(root_node)[i]) = <<>>

\* C18. A snippet of structural depth 1 or less matches nothing: the call
\* returns no-match and leaves save_path as it was, and so it does on every
\* file and with every threshold.
C18_DepthRejection ==
    (m_pc = "done" /\ Flat(snippet_code)) =>
        /\ ast_depth(snippet_code) <= 1
        /\ ~m_return
        /\ save_path \in {<<>>, OldFile}
        /\ \A f \in FullCodes(snippet_code), t \in Thresholds, file \in {<<>>, OldFile} :
              match_and_save(snippet_code, f, file, t) = [return |-> FALSE, file |-> file]

\* A comment alone, matched with threshold 0 against a file that has
\* candidate subtrees, over a file left by an earlier query.
C18_Witness ==
    /\ m_pc = "done"
    /\ Flat(snippet_code)
    /\ ast_depth(snippet_code) = 1
    /\ threshold = 0
    /\ ast_depth(full_code) >= 2
    /\ ~m_return
    /\ save_path = OldFile

\* The top-level nodes of the snippet are, in order and side by side, the
\* children of the file or of a node in it.
HoldsSnippet(snippet_tree, full_tree) ==
    \E node \in {full_tree} \cup Range(collect_candidate_roots(full_tree)) :
        \E i \in 0..(Len(node.children) - Len(snippet_tree.children)) :
            SubSeq(node.children, i + 1, i + Len(snippet_tree.children))
                = snippet_tree.children

\* C19. A snippet of depth 2 or more matched against a file that holds it:
\* some candidate subtree scores 1.0, and the call returns match at the
\* default threshold 0.6.
C19_SelfMatch ==
    ( /\ m_pc = "done"
      /\ ast_depth(snippet_code) >= 2
      /\ HoldsSnippet(snippet_code, full_code) )
    => /\ AnyHit(Sims(snippet_code, full_code), 100)
       /\ threshold = 60 => m_return

\* The same for the snippets with one top-level node, which are candidate
\* subtrees of the files that hold them.
C19_OneItemSelfMatch ==
    ( /\ m_pc = "done"
      /\ ast_depth(snippet_code) >= 2
      /\ Len(named_children(snippet_code)) = 1
      /\ HoldsSnippet(snippet_code, full_code) )
    => /\ AnyHit(Sims(snippet_code, full_code), 100)
       /\ threshold = 60 => m_return

\* C20. The scores do not depend on the threshold: a query that matches
\* matches with every lower threshold, and one that does not match does not
\* with any higher one.
C20_ThresholdMonotone ==
    m_pc = "done" =>
        \A t \in Thresholds :
            /\ (t <= threshold /\ m_return) =>
                  match_and_save(snippet_code, full_code, <<>>, t).return
            /\ (t >= threshold /\ ~m_return) =>
                  ~match_and_save(snippet_code, full_code, <<>>, t).return

\* No match at 0.9 where there is one at 0.6.
C20_Witness ==
    /\ m_pc = "done"
    /\ threshold = 90
    /\ ~m_return
    /\ match_and_save(snippet_code, full_code, <<>>, 60).return

\* C21. The call returns match exactly when there are scores and the highest
\* is at least the threshold; when it returns match the file at save_path is
\* the candidate's source, and when it does not the file at save_path is what
\* it was (absent, or what an earlier query left).
C21_MatchIffMaxScore ==
    [][ (m_pc = "call" /\ m_pc' = "done") =>
          LET sims == Sims(snippet_code, full_code)
          IN  /\ m_return' <=> (sims # <<>> /\ Max(Range(sims)) >= threshold)
              /\ m_return' => save_path' = <<full_code>>
              /\ ~m_return' => save_path' = save_path ]_vars

\* A match at the default threshold on a file that is not the snippet's own,
\* written over what an earlier query left.
C21_Witness ==
    /\ m_pc = "done"
    /\ threshold = 60
    /\ m_return
    /\ full_code # snippet_code
    /\ save_path = <<full_code>>

\* The nodes at distance k from a node, going through named children only, in
\* order and with repetition.
RECURSIVE NodesAt(_, _)
NodesAt(node, k) ==
    IF k = 0 THEN <<node>>
    ELSE LET nc == named_children(node)
             RECURSIVE upto(_)
             upto(i) == IF i = 0 THEN <<>> ELSE upto(i - 1) \o NodesAt(nc[i], k - 1)
         IN  upto(Len(nc))

\* One (parent type, child type) pair for every named child of a node.
PairsOf(node) ==
    LET nc == named_children(node)
        RECURSIVE upto(_)
        upto(i) == IF i = 0 THEN EmptyBag
                   ELSE upto(i - 1) (+) SetToBag({<<node.type, nc[i].type>>})
    IN  upto(Len(nc))

\* The pairs of the nodes at distance 0..last from a root.
RECURSIVE PairsWithin(_, _)
PairsWithin(root, last) ==
    IF last < 0 THEN EmptyBag
    ELSE LET at == NodesAt(root, last)
             RECURSIVE upto(_)
             upto(i) == IF i = 0 THEN EmptyBag ELSE upto(i - 1) (+) PairsOf(at[i])
         IN  PairsWithin(root, last - 1) (+) upto(Len(at))

\* The histograms of a query: of every candidate root of the file, with the
\* snippet's depth as the bound.
CandidateRoots == collect_candidate_roots(full_code)
SnippetDepth == ast_depth(snippet_code)

\* C23 as stated: with D the snippet's depth, the histogram of a candidate
\* root holds the pairs of the nodes at distance 0..D-1 from it.
C23_BigramBoundAsStated ==
    (m_pc = "done" /\ SnippetDepth >= 2) =>
        \A i \in 1..Len(CandidateRoots) :
            ast_2gram_limited(CandidateRoots[i], SnippetDepth, 1)
                = PairsWithin(CandidateRoots[i], SnippetDepth - 1)

\* C23 amended: the root counts as depth 1, so the nodes that emit are those
\* at distance 0..D-2 from the root and the nodes at distance D-1 emit
\* nothing; for the snippet the roots are the wrapper's named children.
C23_BigramBound ==
    (m_pc = "done" /\ SnippetDepth >= 2) =>
        /\ \A i \in 1..Len(CandidateRoots) :
              ast_2gram_limited(CandidateRoots[i], SnippetDepth, 1)
                  = PairsWithin(CandidateRoots[i], SnippetDepth - 2)
        /\ LET tops == named_children(snippet_code)
               RECURSIVE upto(_)
               upto(i) == IF i = 0 THEN EmptyBag
                          ELSE upto(i - 1) (+) PairsWithin(tops[i], SnippetDepth - 2)
           IN  ast_2gram_limited(snippet_code, SnippetDepth, 1) = upto(Len(tops))

\* A candidate root deeper than the snippet, so that the bound cuts it.
C23_Witness ==
    /\ m_pc = "done"
    /\ SnippetDepth >= 2
    /\ \E i \in 1..Len(CandidateRoots) :
          /\ ast_depth(CandidateRoots[i]) > SnippetDepth
          /\ ast_2gram_limited(CandidateRoots[i], SnippetDepth, 1) # EmptyBag

\* The places of the named nodes in a tree: the indices to follow, among
\* named children, from the top.
RECURSIVE NamedPaths(_)
NamedPaths(node) ==
    LET nc == named_children(node)
    IN  {<<>>} \cup UNION {{<<i>> \o p : p \in NamedPaths(nc[i])} : i \in 1..Len(nc)}

RECURSIVE NodeAt(_, _)
NodeAt(node, path) ==
    IF path = <<>> THEN node
    ELSE NodeAt(named_children(node)[Head(path)], Tail(path))

\* How many members of a sequence are equal to x.
Occurrences(x, q) == Cardinality({i \in 1..Len(q) : q[i] = x})

\* C24. collect_candidate_roots gives every named node of the file below the
\* wrapper, each place once, and never the wrapper; the documents of the
\* query after the snippet's are those of the places whose histogram is not
\* empty, one each.
C24_CandidateEnumeration ==
    m_pc = "done" =>
        LET below == NamedPaths(full_code) \ {<<>>}
            hist(p) == ast_2gram_limited(NodeAt(full_code, p), SnippetDepth, 1)
            kept == {p \in below : hist(p) # EmptyBag}
            docs == Tail(documents(snippet_code, full_code))
        IN  /\ Len(CandidateRoots) = Cardinality(below)
            /\ \A i \in 1..Len(CandidateRoots) :
                  CandidateRoots[i].is_named /\ CandidateRoots[i].type # "source_file"
            /\ \A p \in below :
                  Occurrences(NodeAt(full_code, p), CandidateRoots)
                      = Cardinality({q \in below : NodeAt(full_code, q) = NodeAt(full_code, p)})
            /\ SnippetDepth >= 2 =>
                  /\ Len(docs) = Cardinality(kept)
                  /\ \A p \in kept :
                        Occurrences(counter_to_doc(hist(p)), docs)
                            = Cardinality({q \in kept :
                                  counter_to_doc(hist(q)) = counter_to_doc(hist(p))})

\* A file with nested nodes, two of its nodes alike, and roots that are kept
\* as well as roots that are dropped.
C24_Witness ==
    /\ m_pc = "done"
    /\ SnippetDepth >= 2
    /\ \E i, j \in 1..Len(CandidateRoots) :
          i # j /\ CandidateRoots[i] = CandidateRoots[j]
    /\ \E p \in NamedPaths(full_code) : Len(p) >= 3
    /\ Len(documents(snippet_code, full_code)) > 2
    /\ Len(documents(snippet_code, full_code)) - 1 < Len(CandidateRoots)

\* ----------------------------------------------- filter_node's corpus walk
\* src/agent/nodes.py, lines 167-201.  The threshold filter_node passes, in
\* hundredths.
FILTER_THRESHOLD == 60

\* The .rs files under ../rust/tests/ui, in the order os.walk yields them.
CorpusFiles == <<"t1", "t2", "t3">>

\* What a file of the corpus may be: one that open() or read() fails on, or
\* one of two programs.
CorpusCodes == {SourceFile(<<Fn>>), SourceFile(<<Struct>>)}

Candidates(file) ==
    {[file |-> file, readable |-> FALSE, code |-> <<>>]}
    \cup {[file |-> file, readable |-> TRUE, code |-> c] : c \in CorpusCodes}

Corpora ==
    {<<c1, c2, c3>> : c1 \in Candidates(CorpusFiles[1]),
                      c2 \in Candidates(CorpusFiles[2]),
                      c3 \in Candidates(CorpusFiles[3])}

\* filter_node has taken the snippet out of the reasoner's answer and
\* os.walk is about to yield the first file; the output directory is empty.
FilterInit ==
    /\ SweepIdle
    /\ ClassifyIdle
    /\ MatchIdle
    /\ AgentIdle
    /\ f_pc = "walk"
    /\ defect_code \in CorpusCodes
    /\ f_todo \in Corpora
    /\ matched_cases = [i \in 1..Len(CorpusFiles) |-> <<>>]
    /\ f_seen = {}

FileIndex(file) == CHOOSE i \in 1..Len(CorpusFiles) : CorpusFiles[i] = file

\* Lines 182-187: the read fails, the except clause prints and continues.
F_Unreadable ==
    /\ f_pc = "walk"
    /\ f_todo # <<>>
    /\ ~Head(f_todo).readable
    /\ f_todo' = Tail(f_todo)
    /\ f_seen' = f_seen \cup {Head(f_todo).file}
    /\ UNCHANGED <<f_pc, defect_code, matched_cases>>
    /\ UNCHANGED <<envVars, detectVars, coverageVars, historyVars, mergeVars,
                   classifyVars, matchVars, agentVars>>

\* Lines 189-198: the file is read and match_and_save returns.
F_Match ==
    /\ f_pc = "walk"
    /\ f_todo # <<>>
    /\ Head(f_todo).readable
    /\ LET c == Head(f_todo)
           i == FileIndex(c.file)
           r == match_and_save(defect_code, c.code, matched_cases[i], FILTER_THRESHOLD)
       IN  matched_cases' = [matched_cases EXCEPT ![i] = r.file]
    /\ f_todo' = Tail(f_todo)
    /\ f_seen' = f_seen \cup {Head(f_todo).file}
    /\ UNCHANGED <<f_pc, defect_code>>
    /\ UNCHANGED <<envVars, detectVars, coverageVars, historyVars, mergeVars,
                   classifyVars, matchVars, agentVars>>

\* Line 194 with src/tools/ast.py, lines 126-130: the file matches and
\* os.makedirs or open raises.  Neither match_and_save nor filter_node
\* catches it: the exception leaves filter_node and the walk with it.
F_MatchRaises ==
    /\ f_pc = "walk"
    /\ f_todo # <<>>
    /\ Head(f_todo).readable
    /\ AnyHit(Sims(defect_code, Head(f_todo).code), FILTER_THRESHOLD)
    /\ f_pc' = "raised"
    /\ UNCHANGED <<defect_code, f_todo, matched_cases, f_seen>>
    /\ UNCHANGED <<envVars, detectVars, coverageVars, historyVars, mergeVars,
                   classifyVars, matchVars, agentVars>>

\* Lines 199-201: os.walk is exhausted and filter_node returns.
F_Return ==
    /\ f_pc = "walk"
    /\ f_todo = <<>>
    /\ f_pc' = "done"
    /\ UNCHANGED <<defect_code, f_todo, matched_cases, f_seen>>
    /\ UNCHANGED <<envVars, detectVars, coverageVars, historyVars, mergeVars,
                   classifyVars, matchVars, agentVars>>

FilterNext == F_Unreadable \/ F_Match \/ F_MatchRaises \/ F_Return

SpecFilter == FilterInit /\ [][FilterNext]_vars

C22_UnreadableSkipped ==
    [][ (f_pc = "walk" /\ f_todo # <<>> /\ ~Head(f_todo).readable) =>
          /\ f_pc' = "walk"
          /\ f_todo' = Tail(f_todo)
          /\ matched_cases' = matched_cases ]_vars

\* ------------------------------------------ fragments written during a merge
\* PROFILE_PATTERN names a fragment after the process that writes it, and any
\* instrumented process with that LLVM_PROFILE_FILE writes into
\* COVERAGE_INCOMING_DIR.  One such fragment, of a process the walk is not
\* waiting for.
Stray == Fragment(0, <<"stray">>)

\* The fragment lands while perform_merge_and_clean is between its glob
\* (line 60) and its return: the merge tool is running, or the removal loop
\* has not begun.
LateFragment ==
    /\ script = "coverage"
    /\ pc \in {"merge_wait", "clean"}
    /\ Stray \notin fragments
    /\ incoming' = incoming \cup {Stray}
    /\ fragments' = fragments \cup {Stray}
    /\ UNCHANGED envVars
    /\ UNCHANGED <<detectVars, coverageVars, historyVars, classifyVars, matchVars,
                   filterVars, agentVars>>
    /\ UNCHANGED <<index, profraw_files, finalizing, merged, offered, merge_calls,
                   remove_failed>>

\* scripts/run_coverage.py started once, with nothing on disk, on one or two
\* units, while another process may write a fragment.
ScopeInit ==
    /\ script = "coverage"
    /\ tree \in Trees
    /\ Fresh
    /\ ClassifyIdle
    /\ MatchIdle
    /\ FilterIdle
    /\ AgentIdle

ScopeNext == MergeNext \/ LateFragment

SpecScope == ScopeInit /\ [][ScopeNext]_vars

\* C25: the removal loop after a successful merge removes fragments of its
\* own listing only, and all of them when no removal raises; a fragment that
\* is not in the listing stays under COVERAGE_INCOMING_DIR; every later
\* enumeration lists whatever is pending; and a fragment is gone from the
\* directory only after a successful merge it was passed to.
C25_MergeScope ==
    /\ [](\A f \in fragments \ incoming : CopiesIn(f, merged) >= 1)
    /\ [][ /\ (pc = "clean" /\ pc' # "clean") =>
                /\ incoming \ incoming' \subseteq profraw_files
                /\ incoming \ profraw_files \subseteq incoming'
                /\ ~remove_failed' => incoming' = incoming \ profraw_files
           /\ (pc # "merge_wait" /\ pc' = "merge_wait") => profraw_files' = incoming'
         ]_vars

\* A merge of the walk has succeeded and its removals are done; the fragment
\* that landed during it is still pending, in no merge yet.
C25_Witness ==
    /\ pc = "loop"
    /\ merge_calls = 1
    /\ index.state = "valid"
    /\ ~remove_failed
    /\ incoming = {Stray}
    /\ CopiesIn(Stray, merged) = 0

\* The sweep is over and the fragment that landed during the first merge has
\* been merged once, by the final merge.
C25_LaterMerge ==
    /\ pc = "done"
    /\ merge_calls = 2
    /\ incoming = {}
    /\ CopiesIn(Stray, merged) = 1
    /\ CopiesIn(Stray, index.merged) = 1

\* A crash between the archiver's two writes: the script is killed or
\* interrupted after the copy (line 114) and before the log (line 118).
CrashInArchiver == script = "detect" /\ pc = "save_log" /\ pc' \in {"dead", "stopped"}

\* C26 as stated: after a crash between the archiver's two writes the unit
\* is already in the ledger, so a re-run finds it there and skips it.
C26_CrashedUnitLedgered ==
    [][ CrashInArchiver => RelDetect(rs_file) \in load_checked_files(log_file') ]_vars

\* C26, amended: after a crash between the archiver's two writes the crashed
\* sweep has appended no line for the unit to the ledger (a line of it in the
\* file was there when that sweep started), and the copy is in the archive.
C26_CrashedUnitNotLedgered ==
    [][ CrashInArchiver =>
          /\ RelDetect(rs_file) \in Range(splitlines(log_file'))
                => RelDetect(rs_file) \in ledger0
          /\ CopyName(RelDetect(rs_file)) \in Paths(ice_dir') ]_vars

\* The re-run, its ledger read, is compiling a unit whose copy is in the
\* archive without a log and which the ledger does not hold.
C26_Witness ==
    /\ script = "detect"
    /\ run = 2
    /\ ~load_failed
    /\ pc = "compile"
    /\ tree = {<<"a", "rs">>}
    /\ rs_file = <<"a", "rs">>
    /\ CopyName(RelDetect(rs_file)) \in Paths(ice_dir)
    /\ ErrLogName(RelDetect(rs_file)) \notin Paths(ice_dir)
    /\ log_file = <<>>

\* The step that writes the current unit's path to log_f (line 178).
Ledgering ==
    /\ script = "detect"
    /\ rs_file # <<>>
    /\ pc' = "loop"
    /\ processed_count' = processed_count + 1

\* save_ice_report has returned for the current unit: False, with nothing
\* more written, or True, with the copy and the log in the archive.
ArchivalDone ==
    \/ rs_file \in unsaved
    \/ /\ CopyName(RelDetect(rs_file)) \in Paths(ice_dir)
       /\ ErrLogName(RelDetect(rs_file)) \in Paths(ice_dir)

\* A crash before save_ice_report has returned for an ICE unit.
CrashDuringArchival ==
    /\ script = "detect"
    /\ pc' \in {"dead", "stopped"}
    /\ \/ pc = "save_log"
       \/ pc = "checked" /\ result.is_ice

\* C28: the path of an ICE unit is written to the ledger only from the point
\* after save_ice_report has returned, so every ICE unit's ledger line is
\* younger than its archival attempt; a crash during the archival leaves
\* the ledger without a line of this sweep for the unit, and the next sweep,
\* when it reads that ledger, compiles the unit again.
C28_ArchiveBeforeLedger ==
    /\ [][ (Ledgering /\ result.is_ice) => (pc = "record" /\ ArchivalDone) ]_vars
    /\ [][ CrashDuringArchival =>
             /\ RelDetect(rs_file) \in Range(splitlines(log_file'))
                   => RelDetect(rs_file) \in ledger0
             /\ RelDetect(rs_file) \notin ledger0
                   => RelDetect(rs_file) \notin load_checked_files(log_file') ]_vars


\* C28 without the resume: the ordering, and the ledger file after a crash
\* during the archival.
C28_OrderOnly ==
    /\ [][ (Ledgering /\ result.is_ice) => (pc = "record" /\ ArchivalDone) ]_vars
    /\ [][ CrashDuringArchival =>
             (RelDetect(rs_file) \in Range(splitlines(log_file'))
                   => RelDetect(rs_file) \in ledger0) ]_vars

\* C27: when a sweep has run to its end, every unit of the tree has been
\* visited (none is left to enumerate), the ledger stream is empty and the
\* relative path of every unit is a line of the ledger file, the units of
\* a last batch of fewer than BATCH_SIZE included.
C27_SweepCompletion ==
    pc = "done" =>
        /\ todo = {}
        /\ LedgerStream = <<>>
        /\ \A f \in tree : Rel(f) \in Range(LedgerLines)

\* C27 for the units scripts/detect.py handed to the runner in this sweep:
\* at the end each is a line of the ledger file and nothing is left in log_f.
C27_FinalFlush ==
    (script = "detect" /\ pc = "done") =>
        /\ todo = {}
        /\ log_f = <<>>
        /\ \A f \in tree : outcome[f] # "none" => RelDetect(f) \in Range(splitlines(log_file))

\* ------------------------------------------------- the minify/verify loop
\* src/agent/graph.py router, line 6: the two limits.
ITERATION_LIMIT == 20
FAILURE_LIMIT == 10

\* The text between ```rust and ``` in the input document, before strip():
\* one program, with and without the line feeds around it.
TriggerCodes == {<<"nl", "a", "nl", "b", "nl">>, <<"a", "nl", "b">>}

\* The texts between ```rust and ``` in the generator's answers.
RawCodes == {<<"a", "nl", "b">>, <<"nl", "a", "nl">>, <<"b">>}

\* What re.search(r"```rust(.*?)```", ...) finds in an answer: nothing, or
\* the first block.
Blocks == {<<>>} \cup {<<raw>> : raw \in RawCodes}

\* What rustc can write on output/tmp.rs: nothing, an error, a panic.
CompilerRuns ==
    { [stderr |-> <<>>, stdout |-> <<>>],
      [stderr |-> <<"x">>, stdout |-> <<>>],
      [stderr |-> <<"I", "C">>, stdout |-> <<"E">>] }

\* src/tools/diff.py get_concise_diff: unified_diff over the two splitlines()
\* lists, without its header lines.  Empty when the lists are equal; else
\* the lines taken out and the lines put in (the model does not shorten them
\* to the hunks difflib finds).
get_concise_diff(original, modified) ==
    IF splitlines(original) = splitlines(modified)
    THEN <<>>
    ELSE [i \in 1..Len(splitlines(original)) |-> <<"-">> \o splitlines(original)[i]]
         \o [i \in 1..Len(splitlines(modified)) |-> <<"+">> \o splitlines(modified)[i]]

\* src/agent/nodes.py parse_input_node, lines 22-37, on the trigger code
\* parse_markdown_input has found and stripped.
parse_input_node(code) ==
    [original_code |-> code, current_code |-> code, best_code |-> code,
     iteration |-> 0, consecutive_failure_count |-> 0]

\* minifier_node, lines 83-92: the first block of the answer, stripped, or
\* best_code when the answer has none.
minifier_node(st, blocks) ==
    [current_code |-> IF blocks # <<>> THEN strip(blocks[1]) ELSE st.best_code,
     iteration |-> st.iteration + 1]

\* verification_node, lines 94-128, on what run_compiler returned: the
\* fields it returns, the others as they were.
MutVerificationNode(st, output) ==
    [consecutive_failure_count |->
        IF check_is_ice(output) THEN 0 ELSE st.consecutive_failure_count + 1,
     best_code |-> st.current_code,
     status |-> IF check_is_ice(output) THEN "success" ELSE "failure"]
verification_node(st, output) ==
    LET code == st.current_code
    IN  IF check_is_ice(output)
        THEN [consecutive_failure_count |-> 0,
              best_code |-> code,
              status |-> "success"]
        ELSE IF get_concise_diff(st.best_code, code) # <<>>
             THEN [consecutive_failure_count |-> st.consecutive_failure_count + 1,
                   best_code |-> st.best_code,
                   status |-> "failure"]
             ELSE [consecutive_failure_count |-> st.consecutive_failure_count,
                   best_code |-> st.best_code,
                   status |-> "failed"]

\* src/agent/graph.py router, lines 5-8.
MutRouter(st) ==
    IF st.consecutive_failure_count >= FAILURE_LIMIT \/ st.iteration >= ITERATION_LIMIT + 1
    THEN "reasoner"
    ELSE "minify"
router(st) ==
    IF st.consecutive_failure_count >= FAILURE_LIMIT \/ st.iteration >= ITERATION_LIMIT
    THEN "reasoner"
    ELSE "minify"

\* The fields of AgentState the loop reads.
AgentState ==
    [original_code |-> original_code, current_code |-> current_code,
     best_code |-> best_code, iteration |-> iteration,
     consecutive_failure_count |-> consecutive_failure_count, status |-> status]

\* app.stream(inputs) has been called: the entry point is parse.
AgentInit ==
    /\ SweepIdle
    /\ ClassifyIdle
    /\ MatchIdle
    /\ FilterIdle
    /\ a_pc = "parse"
    /\ original_code = <<>>
    /\ current_code = <<>>
    /\ best_code = <<>>
    /\ iteration = 0
    /\ consecutive_failure_count = 0
    /\ status = "init"
    /\ rounds = 0
    /\ verified = {}
    /\ last_output = <<>>

NotAgent ==
    UNCHANGED <<envVars, detectVars, coverageVars, historyVars, mergeVars,
                classifyVars, matchVars, filterVars>>

\* parse: src/tools/parser.py finds the trigger code and strips it.
A_Parse ==
    /\ a_pc = "parse"
    /\ \E raw \in TriggerCodes :
        LET s == parse_input_node(strip(raw))
        IN  /\ original_code' = s.original_code
            /\ current_code' = s.current_code
            /\ best_code' = s.best_code
            /\ iteration' = s.iteration
            /\ consecutive_failure_count' = s.consecutive_failure_count
    /\ a_pc' = "minify"
    /\ UNCHANGED <<status, rounds, verified, last_output>>
    /\ NotAgent

\* minify: the generator answers, with a rust block or without.
A_Minify ==
    /\ a_pc = "minify"
    /\ \E blocks \in Blocks :
        LET s == minifier_node(AgentState, blocks)
        IN  /\ current_code' = s.current_code
            /\ iteration' = s.iteration
    /\ a_pc' = "verify"
    /\ UNCHANGED <<original_code, best_code, consecutive_failure_count, status,
                   rounds, verified, last_output>>
    /\ NotAgent

\* verify: the compiler runs on current_code and its text is classified.
A_Verify ==
    /\ a_pc = "verify"
    /\ \E t \in CompilerRuns :
        LET out == run_compiler(t.stderr, t.stdout)
            s == verification_node(AgentState, out)
        IN  /\ last_output' = out
            /\ consecutive_failure_count' = s.consecutive_failure_count
            /\ best_code' = s.best_code
            /\ status' = s.status
            /\ verified' = IF check_is_ice(out) THEN verified \cup {current_code}
                           ELSE verified
    /\ rounds' = rounds + 1
    /\ a_pc' = "route"
    /\ UNCHANGED <<original_code, current_code, iteration>>
    /\ NotAgent

\* The conditional edge after verify.
A_Route ==
    /\ a_pc = "route"
    /\ a_pc' = router(AgentState)
    /\ UNCHANGED <<original_code, current_code, best_code, iteration,
                   consecutive_failure_count, status, rounds, verified, last_output>>
    /\ NotAgent

\* src/main.py, lines 50-79: a node raises (no trigger code in the document,
\* the generator cannot be reached, output/tmp.rs cannot be written) and the
\* except clause around app.stream ends the run.
A_Raise ==
    /\ a_pc \in {"parse", "minify", "verify"}
    /\ a_pc' = "error"
    /\ UNCHANGED <<original_code, current_code, best_code, iteration,
                   consecutive_failure_count, status, rounds, verified, last_output>>
    /\ NotAgent

AgentNext == A_Parse \/ A_Minify \/ A_Verify \/ A_Route \/ A_Raise

SpecAgent == AgentInit /\ [][AgentNext]_vars

\* Every node that is called returns or raises, and the graph then takes
\* its edge.
SpecAgentLive == SpecAgent /\ WF_vars(AgentNext)

LoopLeft == a_pc \in {"reasoner", "error"}

\* C29: the loop ends.  A minify step adds one to iteration; the router
\* leaves for the reasoner exactly when iteration >= 20 or
\* consecutive_failure_count >= 10; verification never runs more than 20
\* times; and every run of the graph gets out of the loop.
C29_LoopTerminates ==
    /\ [](rounds <= ITERATION_LIMIT /\ iteration <= ITERATION_LIMIT)
    /\ [][ /\ (a_pc = "minify" /\ a_pc' = "verify") => iteration' = iteration + 1
           /\ a_pc = "route" =>
                (a_pc' = "reasoner" <=>
                    (iteration >= ITERATION_LIMIT
                     \/ consecutive_failure_count >= FAILURE_LIMIT)) ]_vars
    /\ <>LoopLeft

\* The loop was left after 20 rounds, the failure limit not reached.
C29_Witness ==
    /\ a_pc = "reasoner"
    /\ rounds = ITERATION_LIMIT
    /\ consecutive_failure_count < FAILURE_LIMIT

\* The loop was left after 10 failures in a row, before the 20th round.
C29_LeftOnFailures ==
    /\ a_pc = "reasoner"
    /\ rounds < ITERATION_LIMIT
    /\ consecutive_failure_count = FAILURE_LIMIT

\* C30: best_code changes only in parse, or in verify to the candidate whose
\* compiler text that very step classified as an ICE; once parse is over
\* best_code is the original trigger code or a code that passed
\* verification; a verification that fails leaves best_code as it was.
C30_BestCodeVerified ==
    /\ [](a_pc \notin {"idle", "parse", "error"} =>
            (best_code = original_code \/ best_code \in verified))
    /\ [][ /\ (best_code' # best_code) =>
                \/ a_pc = "parse"
                \/ /\ a_pc = "verify"
                   /\ check_is_ice(last_output')
                   /\ best_code' = current_code
           /\ (a_pc = "verify" /\ a_pc' = "route" /\ ~check_is_ice(last_output')) =>
                best_code' = best_code ]_vars

\* A candidate other than the trigger code has passed verification and is
\* best_code; a later candidate has just failed and best_code is unchanged.
C30_Witness ==
    /\ a_pc = "route"
    /\ status = "failure"
    /\ best_code # original_code
    /\ best_code \in verified
    /\ current_code # best_code
    /\ ~check_is_ice(last_output)

\* A step of verification_node.
Verifying == a_pc = "verify" /\ a_pc' = "route"

\* C31: consecutive_failure_count is the number of failed verifications
\* since the last one that passed: parse starts it at 0, a verification that
\* passes sets it to 0, every verification that fails adds one, and no
\* other step changes it.
C31_FailureCount ==
    [][ /\ (a_pc = "parse" /\ a_pc' = "minify") => consecutive_failure_count' = 0
        /\ (Verifying /\ check_is_ice(last_output')) => consecutive_failure_count' = 0
        /\ (Verifying /\ ~check_is_ice(last_output')) =>
              consecutive_failure_count' = consecutive_failure_count + 1
        /\ (a_pc \notin {"parse", "verify"}) =>
              consecutive_failure_count' = consecutive_failure_count ]_vars

\* C31 for the failed verifications of a candidate that differs from
\* best_code by a line, and for the ones that pass; a failed verification
\* never takes the count down.
C31_CountedWhenDiff ==
    [][ /\ (Verifying /\ check_is_ice(last_output')) => consecutive_failure_count' = 0
        /\ (Verifying /\ ~check_is_ice(last_output')
              /\ splitlines(current_code) # splitlines(best_code)) =>
              consecutive_failure_count' = consecutive_failure_count + 1
        /\ (Verifying /\ ~check_is_ice(last_output')) =>
              consecutive_failure_count' >= consecutive_failure_count
        /\ (a_pc \notin {"parse", "verify"}) =>
              consecutive_failure_count' = consecutive_failure_count ]_vars

\* The set the running script has loaded from its ledger, and the set a
\* complete read of a ledger text gives it.
Loaded == IF script = "detect" THEN checked_files ELSE processed_set
FullLoad(text) ==
    IF script = "detect" THEN load_checked_files(text) ELSE load_processed_files(text)

\* The script starts on a ledger file that is there and that it cannot read
\* to the end.
StartUnread ==
    /\ pc = "start"
    /\ pc' = "loop"
    /\ LedgerFile # <<>>
    /\ Loaded' # FullLoad(LedgerFile)

DetectUnread ==
    /\ script = "detect"
    /\ pc \in {"loop", "compile", "wait", "checked", "save_log", "record", "done"}
    /\ checked_files = {}
    /\ load_checked_files(log_file) # {}
    /\ ledger0 # {}

Count(line, q) == Cardinality({i \in 1..Len(q) : q[i] = line})

\* C32 for scripts/detect.py: on a ledger it could not read it starts with
\* the empty set, skips no unit, and at its end every unit of the tree has
\* been handed to the runner and has one more line in the ledger file than
\* it had.
C32_DetectRerunsAll ==
    /\ [][ (script = "detect" /\ StartUnread) =>
              (checked_files' = {} /\ todo' = tree /\ log_file' = log_file) ]_vars
    /\ [][ DetectUnread => skipped_count' = skipped_count ]_vars
    /\ []((DetectUnread /\ pc = "done") =>
            \A f \in tree :
                /\ outcome[f] # "none"
                /\ Count(RelDetect(f), splitlines(log_file))
                     >= 1 + (IF RelDetect(f) \in ledger0 THEN 1 ELSE 0))

\* scripts/detect.py has run to its end on a ledger it could not read: the
\* one unit, recorded by the first sweep, has two lines.
C32_DetectWitness ==
    /\ DetectUnread
    /\ pc = "done"
    /\ tree = {<<"a", "rs">>}
    /\ Count(<<"a", "rs">>, splitlines(log_file)) = 2
====
